---- MODULE Spec2Model ----
(***************************************************************************)
(* Model of the completion-orchestration pipeline of hanza_bot             *)
(* (Responses-API variant of server.js): token budgets, the response-tree  *)
(* extractor, the text normalizer and joiner, and the auto-continue loop   *)
(* of completeWithAutoContinue and of POST /api/raw.                       *)
(*                                                                         *)
(* JavaScript strings are sequences of one-character strings.              *)
(* JavaScript values that reach arithmetic are records [k, v]: k is        *)
(* "num" (v the integer value), "nan", "undef" or "str" (a non-numeric     *)
(* string).  Fractional numbers are not modelled.                          *)
(* JSON payloads are tagged records [t, s, a, f]: t is the type tag,       *)
(* s the characters of a string, a the elements of an array, f the         *)
(* key/value pairs of an object in document order.                         *)
(***************************************************************************)
EXTENDS Integers, Sequences, FiniteSets, TLC

\* ------------------------------------------------------------------------
\* JavaScript numbers and coercions
\* ------------------------------------------------------------------------

NaN == [k |-> "nan", v |-> 0]

Undefined == [k |-> "undef", v |-> 0]

\* a non-numeric string such as "abc"
TextVal == [k |-> "str", v |-> 0]

Num(n) == [k |-> "num", v |-> n]

\* Math.max(a, b) on numbers: NaN if either argument is NaN
MathMax(a, b) ==
  IF a.k # "num" \/ b.k # "num" THEN NaN
  ELSE IF a.v >= b.v THEN a ELSE b

\* Math.min(a, b) on numbers: NaN if either argument is NaN
MathMin(a, b) ==
  IF a.k # "num" \/ b.k # "num" THEN NaN
  ELSE IF a.v <= b.v THEN a ELSE b

\* Number(x): a number is itself, undefined and non-numeric text are NaN
ToNumber(x) == IF x.k = "num" THEN x ELSE NaN

\* the truthiness of x in (x || d): undefined, NaN, 0 (and "") are falsy;
\* TextVal stands for a non-empty string
Truthy(x) == (x.k = "num" /\ x.v # 0) \/ x.k = "str"

\* x || d
OrElse(x, d) == IF Truthy(x) THEN x ELSE d

\* x ?? d
Coalesce(x, d) == IF x.k = "undef" THEN d ELSE x

\* Number.isFinite(x): true for numbers only (no coercion)
IsFinite(x) == x.k = "num"

\* a < b in JavaScript: false when either side is NaN
JsLess(a, b) == a.k = "num" /\ b.k = "num" /\ a.v < b.v

\* Math.round(n * m) for integers n, m
RoundTimes(n, m) ==
  IF n.k # "num" \/ m.k # "num" THEN NaN ELSE Num(n.v * m.v)


\* a variant of RoundTimes125: the budget is scaled by 0.75
RoundTimes125_shrink(n) ==
  IF n.k # "num" THEN NaN ELSE Num((3 * n.v + 2) \div 4)

\* Math.round(n * 1.25): round half up of 5n/4
RoundTimes125(n) ==
  IF n.k # "num" THEN NaN ELSE Num((5 * n.v + 2) \div 4)

\* process.env.X as the program reads it: unset, or a string that is
\* either the decimal form of an integer (k = "num") or not numeric.
\* Number(process.env.X || d): the string "0" is truthy, so it parses to 0.
EnvNumber(e, d) ==
  IF e.k = "undef" THEN Num(d) ELSE ToNumber(e)

\* ------------------------------------------------------------------------
\* Characters and regular-expression character classes
\* ------------------------------------------------------------------------

Digit == {"0", "1", "2", "3", "4", "5", "6", "7", "8", "9"}

Lower == {"a", "b", "c", "d", "e", "f", "g", "h", "i", "j", "k", "l", "m",
          "n", "o", "p", "q", "r", "s", "t", "u", "v", "w", "x", "y", "z"}

Upper == {"A", "B", "C", "D", "E", "F", "G", "H", "I", "J", "K", "L", "M",
          "N", "O", "P", "Q", "R", "S", "T", "U", "V", "W", "X", "Y", "Z"}

\* [A-Za-z]
Alpha == Lower \cup Upper

\* [A-Za-z0-9]
Alnum == Alpha \cup Digit

\* \w
WordCh == Alnum \cup {"_"}

\* \s (the white-space characters that are modelled)
Space == {" ", "\t", "\n", "\r"}

\* [.,;:!?]
Punct == {".", ",", ";", ":", "!", "?"}

\* the concatenation of a sequence of strings (Array.prototype.join(""))
RECURSIVE Concat(_)
Concat(ss) == IF ss = <<>> THEN <<>> ELSE Head(ss) \o Concat(Tail(ss))

\* String.prototype.trim
RECURSIVE TrimLeft(_)
TrimLeft(s) ==
  IF s # <<>> /\ Head(s) \in Space THEN TrimLeft(Tail(s)) ELSE s

RECURSIVE TrimRight(_)
TrimRight(s) ==
  IF s # <<>> /\ s[Len(s)] \in Space
  THEN TrimRight(SubSeq(s, 1, Len(s) - 1)) ELSE s

Trim(s) == TrimRight(TrimLeft(s))

\* ------------------------------------------------------------------------
\* normalizeOutputText: the replace chain, one operator per replace call.
\* Each operator scans from index i and returns the rewritten rest, as a
\* global regular-expression replace does: leftmost match first, matches
\* never overlap, and a match is tested against the input of its own pass.
\* ------------------------------------------------------------------------

\* s.replace(/\r\n?/g, "\n")
RECURSIVE ReplaceCRLF(_, _)
ReplaceCRLF(s, i) ==
  IF i > Len(s) THEN <<>>
  ELSE IF s[i] = "\r"
       THEN IF i < Len(s) /\ s[i + 1] = "\n"
            THEN <<"\n">> \o ReplaceCRLF(s, i + 2)
            ELSE <<"\n">> \o ReplaceCRLF(s, i + 1)
       ELSE <<s[i]>> \o ReplaceCRLF(s, i + 1)

\* s.replace(/([A-Za-z0-9])\.([A-Za-z])/g, "$1. $2")
RECURSIVE ReplacePeriodLetter(_, _)
ReplacePeriodLetter(s, i) ==
  IF i > Len(s) THEN <<>>
  ELSE IF i + 2 <= Len(s) /\ s[i] \in Alnum /\ s[i + 1] = "."
          /\ s[i + 2] \in Alpha
       THEN <<s[i], ".", " ", s[i + 2]>> \o ReplacePeriodLetter(s, i + 3)
       ELSE <<s[i]>> \o ReplacePeriodLetter(s, i + 1)

\* s.replace(/([,;:!?])(?=[A-Za-z0-9(])/g, "$1 ")
RECURSIVE ReplacePunctLetter(_, _)
ReplacePunctLetter(s, i) ==
  IF i > Len(s) THEN <<>>
  ELSE IF s[i] \in {",", ";", ":", "!", "?"} /\ i < Len(s)
          /\ s[i + 1] \in Alnum \cup {"("}
       THEN <<s[i], " ">> \o ReplacePunctLetter(s, i + 1)
       ELSE <<s[i]>> \o ReplacePunctLetter(s, i + 1)

\* the index after the maximal run of characters of class C starting at i
RECURSIVE RunEnd(_, _, _)
RunEnd(s, i, C) ==
  IF i <= Len(s) /\ s[i] \in C THEN RunEnd(s, i + 1, C) ELSE i

\* s.replace(/\s+([.,;:!?])/g, "$1")
RECURSIVE ReplaceSpacePunct(_, _)
ReplaceSpacePunct(s, i) ==
  IF i > Len(s) THEN <<>>
  ELSE IF s[i] \in Space
       THEN LET j == RunEnd(s, i, Space)
            IN  IF j <= Len(s) /\ s[j] \in Punct
                THEN <<s[j]>> \o ReplaceSpacePunct(s, j + 1)
                ELSE SubSeq(s, i, j - 1) \o ReplaceSpacePunct(s, j)
       ELSE <<s[i]>> \o ReplaceSpacePunct(s, i + 1)

\* \b in front of the word character s[i]
WordStart(s, i) == i = 1 \/ s[i - 1] \notin WordCh

\* the length of the match of /\bA\. ?B\./ at index i, 0 if there is none
DotPairLen(s, i, A, B) ==
  IF i + 3 <= Len(s) /\ s[i] \in A /\ WordStart(s, i) /\ s[i + 1] = "."
  THEN IF i + 4 <= Len(s) /\ s[i + 2] = " " /\ s[i + 3] \in B
          /\ s[i + 4] = "."
       THEN 5
       ELSE IF s[i + 2] \in B /\ s[i + 3] = "." THEN 4 ELSE 0
  ELSE 0

\* s.replace(/\be\. ?g\./gi, "e.g.") and s.replace(/\bi\. ?e\./gi, "i.e."):
\* A and B are the letters matched, a and b the letters written
RECURSIVE ReplaceAbbrev(_, _, _, _, _, _)
ReplaceAbbrev(s, i, A, B, a, b) ==
  IF i > Len(s) THEN <<>>
  ELSE LET n == DotPairLen(s, i, A, B)
       IN  IF n > 0
           THEN <<a, ".", b, ".">> \o ReplaceAbbrev(s, i + n, A, B, a, b)
           ELSE <<s[i]>> \o ReplaceAbbrev(s, i + 1, A, B, a, b)

\* s.replace(/\b([A-Z])\. ?([A-Z])\./g, "$1.$2.")
RECURSIVE ReplaceInitials(_, _)
ReplaceInitials(s, i) ==
  IF i > Len(s) THEN <<>>
  ELSE LET n == DotPairLen(s, i, Upper, Upper)
       IN  IF n > 0
           THEN <<s[i], ".", s[i + n - 2], ".">> \o ReplaceInitials(s, i + n)
           ELSE <<s[i]>> \o ReplaceInitials(s, i + 1)

\* s.replace(/[ \t]{2,}/g, " ")
RECURSIVE ReplaceBlanks(_, _)
ReplaceBlanks(s, i) ==
  IF i > Len(s) THEN <<>>
  ELSE LET j == RunEnd(s, i, {" ", "\t"})
       IN  IF j - i >= 2 THEN <<" ">> \o ReplaceBlanks(s, j)
           ELSE <<s[i]>> \o ReplaceBlanks(s, i + 1)

\* s.replace(/\. \./g, ". ")
RECURSIVE ReplaceDotDot(_, _)
ReplaceDotDot(s, i) ==
  IF i > Len(s) THEN <<>>
  ELSE IF i + 2 <= Len(s) /\ s[i] = "." /\ s[i + 1] = " " /\ s[i + 2] = "."
       THEN <<".", " ">> \o ReplaceDotDot(s, i + 3)
       ELSE <<s[i]>> \o ReplaceDotDot(s, i + 1)

normalizeOutputText(s) ==
  IF s = <<>> THEN s
  ELSE LET s1 == ReplaceCRLF(s, 1)
           s2 == ReplacePeriodLetter(s1, 1)
           s3 == ReplacePunctLetter(s2, 1)
           s4 == ReplaceSpacePunct(s3, 1)
           s5 == ReplaceAbbrev(s4, 1, {"e", "E"}, {"g", "G"}, "e", "g")
           s6 == ReplaceAbbrev(s5, 1, {"i", "I"}, {"e", "E"}, "i", "e")
           s7 == ReplaceInitials(s6, 1)
           s8 == ReplaceBlanks(s7, 1)
       IN  ReplaceDotDot(s8, 1)

\* ------------------------------------------------------------------------
\* smartJoin
\* ------------------------------------------------------------------------

\* a variant of needSpace: the first of its three cases only
needSpace_wordsOnly(prev, next) == prev \in WordCh /\ next \in WordCh

\* needSpace of smartJoin, for the last character of the output so far and
\* the first character of the next fragment

needSpace(prev, next) ==
  \/ (prev \in WordCh /\ next \in WordCh)
  \/ (prev \in {")", "]"} /\ next \in WordCh)
  \/ (prev \in Punct /\ next \notin Space \cup Punct \cup {")", "]"})

\* the loop of smartJoin: out is the output so far, parts the fragments left
RECURSIVE smartJoinLoop(_, _)
smartJoinLoop(out, parts) ==
  IF parts = <<>> THEN out
  ELSE LET s == Head(parts)
       IN  IF s = <<>> THEN smartJoinLoop(out, Tail(parts))
           ELSE IF out = <<>> THEN smartJoinLoop(s, Tail(parts))
           ELSE smartJoinLoop(
                  out \o (IF needSpace(out[Len(out)], s[1]) THEN <<" ">>
                          ELSE <<>>) \o s,
                  Tail(parts))

smartJoin(parts) == ReplaceSpacePunct(smartJoinLoop(<<>>, parts), 1)

\* ------------------------------------------------------------------------
\* JSON payloads
\* ------------------------------------------------------------------------

JNull == [t |-> "null", s |-> <<>>, a |-> <<>>, f |-> <<>>]

\* the value of a property that is absent
JUndef == [t |-> "undef", s |-> <<>>, a |-> <<>>, f |-> <<>>]

JTrue == [t |-> "true", s |-> <<>>, a |-> <<>>, f |-> <<>>]

JFalse == [t |-> "false", s |-> <<>>, a |-> <<>>, f |-> <<>>]

JStr(s) == [t |-> "str", s |-> s, a |-> <<>>, f |-> <<>>]

JArr(a) == [t |-> "arr", s |-> <<>>, a |-> a, f |-> <<>>]

\* f is a sequence of pairs [k |-> key, v |-> value]; keys are unique
JObj(f) == [t |-> "obj", s |-> <<>>, a |-> <<>>, f |-> f]

KV(k, v) == [k |-> k, v |-> v]

\* node[k], and data?.k: undefined for a missing key and for a node that
\* is no object
Get(node, k) ==
  IF node.t # "obj" THEN JUndef
  ELSE LET idx == {i \in 1..Len(node.f) : node.f[i].k = k}
       IN  IF idx = {} THEN JUndef
           ELSE node.f[CHOOSE i \in idx : \A j \in idx : j <= i].v

\* the truthiness of a payload value
JTruthy(n) == n.t \in {"obj", "arr", "true"} \/ (n.t = "str" /\ n.s # <<>>)

\* the string values the code compares with
STR_assistant == <<"a", "s", "s", "i", "s", "t", "a", "n", "t">>

STR_output_text == <<"o", "u", "t", "p", "u", "t", "_", "t", "e", "x", "t">>

STR_output_text_delta == <<"o", "u", "t", "p", "u", "t", "_", "t", "e", "x", "t", "_", "d", "e", "l", "t", "a">>

STR_text == <<"t", "e", "x", "t">>

STR_refusal == <<"r", "e", "f", "u", "s", "a", "l">>

STR_incomplete == <<"i", "n", "c", "o", "m", "p", "l", "e", "t", "e">>

STR_max_output_tokens == <<"m", "a", "x", "_", "o", "u", "t", "p", "u", "t", "_", "t", "o", "k", "e", "n", "s">>

STR_unknown == <<"u", "n", "k", "n", "o", "w", "n">>

STR_object == <<"[", "o", "b", "j", "e", "c", "t", " ", "O", "b", "j", "e", "c", "t", "]">>

\* String(x) of an array element, and Array.prototype.join(sep)
RECURSIVE JoinArray(_, _)
ElemString(n) ==
  CASE n.t = "str" -> n.s
    [] n.t = "true" -> <<"t", "r", "u", "e">>
    [] n.t = "false" -> <<"f", "a", "l", "s", "e">>
    [] n.t = "arr" -> JoinArray(n.a, <<",">>)
    [] n.t = "obj" -> STR_object
    [] OTHER -> <<>>

JoinArray(a, sep) ==
  IF a = <<>> THEN <<>>
  ELSE IF Len(a) = 1 THEN ElemString(a[1])
  ELSE ElemString(a[1]) \o sep \o JoinArray(Tail(a), sep)

\* ------------------------------------------------------------------------
\* extractResponseText
\* ------------------------------------------------------------------------

\* push(s): the chunks a value adds, nothing unless it is a non-empty string
push(n) == IF n.t = "str" /\ n.s # <<>> THEN <<n.s>> ELSE <<>>

\* the textual candidate fields, in the order the code inspects them
TextKeys == <<"output_text", "text", "content", "value", "message">>

\* a variant of ContainerKeys: "choices" and "data" are not recursed into
ContainerKeys_fewer ==
  <<"output", "content", "message", "messages", "arguments", "items",
    "parts">>

\* the container fields, in the order the code recurses into them
ContainerKeys == <<"output", "content", "message", "messages", "choices",
                   "arguments", "items", "parts", "data">>

\* the condition under which a string field k of a node is collected
collectField(nextRole, k, ty) ==
  \/ (nextRole.t = "str" /\ nextRole.s = STR_assistant)
  \/ k = "output_text"
  \/ (ty.t = "str" /\ ty.s \in {STR_output_text, STR_output_text_delta,
                                STR_text, STR_refusal})

\* visit(node, role): the chunks pushed while visiting node, in push order
RECURSIVE visit(_, _)
RECURSIVE visitArray(_, _, _)
RECURSIVE visitTextKeys(_, _, _)
RECURSIVE visitContainers(_, _, _)

visitArray(a, i, role) ==
  IF i > Len(a) THEN <<>>
  ELSE visit(a[i], role) \o visitArray(a, i + 1, role)

visitTextKeys(node, i, nextRole) ==
  IF i > Len(TextKeys) THEN <<>>
  ELSE LET k == TextKeys[i]
       IN  (IF Get(node, k).t = "str"
               /\ collectField(nextRole, k, Get(node, "type"))
            THEN push(Get(node, k)) ELSE <<>>)
           \o visitTextKeys(node, i + 1, nextRole)

visitDelta(node, nextRole) ==
  LET d == Get(node, "delta")
  IN  IF JTruthy(d)
      THEN IF d.t = "str" THEN push(d) ELSE visit(d, nextRole)
      ELSE <<>>

visitContainers(node, i, nextRole) ==
  IF i > Len(ContainerKeys) THEN <<>>
  ELSE LET c == Get(node, ContainerKeys[i])
       IN  (IF JTruthy(c) THEN visit(c, nextRole) ELSE <<>>)
           \o visitContainers(node, i + 1, nextRole)

visit(node, role) ==
  CASE node.t \in {"null", "undef"} -> <<>>
    [] node.t = "str" -> push(node)
    [] node.t = "arr" -> visitArray(node.a, 1, role)
    [] node.t = "obj" ->
         LET nextRole == IF Get(node, "role").t = "str"
                         THEN Get(node, "role") ELSE role
         IN  visitTextKeys(node, 1, nextRole)
             \o visitDelta(node, nextRole)
             \o visitContainers(node, 1, nextRole)
    [] OTHER -> <<>>

\* a variant of extractResponseText: no fast path, the payload is walked
extractResponseText_noFastPath(data) ==
  Trim(normalizeOutputText(smartJoin(visit(data, JNull))))

extractResponseText(data) ==
  LET ot == Get(data, "output_text")
  IN  IF ot.t = "str" /\ ot.s # <<>> THEN normalizeOutputText(ot.s)
      ELSE IF ot.t = "arr" /\ ot.a # <<>>
           THEN normalizeOutputText(JoinArray(ot.a, <<>>))
      ELSE Trim(normalizeOutputText(smartJoin(visit(data, JNull))))

\* the walk of visit seen for the exceptions it can raise: reading a
\* property of null or undefined raises a TypeError, every other step of
\* the function is defined on every value

\* a variant of isNullish: the guard of the walk lets null through
isNullish_never(node) == FALSE

\* node == null
isNullish(node) == node.t \in {"null", "undef"}

\* typeof node === "object", which null satisfies as well
typeofObject(node) == node.t \in {"obj", "arr", "null"}

\* node.role, node.type, node[k] raise when node is null or undefined
readThrows(node) == node.t \in {"null", "undef"}

RECURSIVE visitThrows(_)
visitThrows(node) ==
  IF isNullish(node) THEN FALSE
  ELSE IF node.t = "str" THEN FALSE
  ELSE IF node.t = "arr" THEN \E i \in 1..Len(node.a) : visitThrows(node.a[i])
  ELSE IF ~typeofObject(node) THEN FALSE
  ELSE \/ readThrows(node)
       \/ LET d == Get(node, "delta")
          IN  JTruthy(d) /\ d.t # "str" /\ visitThrows(d)
       \/ \E i \in 1..Len(ContainerKeys) :
            LET c == Get(node, ContainerKeys[i])
            IN  JTruthy(c) /\ visitThrows(c)

\* whether extractResponseText(data) raises: data?.output_text is safe on
\* every value, join and the normalizer act on an array and on strings
extractThrows(data) ==
  LET ot == Get(data, "output_text")
  IN  IF ot.t = "str" /\ ot.s # <<>> THEN FALSE
      ELSE IF ot.t = "arr" /\ ot.a # <<>> THEN FALSE
      ELSE visitThrows(data)

getIncompleteReason(data) ==
  IF data.t \notin {"obj", "arr"} THEN JNull
  ELSE IF Get(data, "status").t = "str" /\ Get(data, "status").s = STR_incomplete
       THEN LET r == Get(Get(data, "incomplete_details"), "reason")
            IN  IF JTruthy(r) THEN r ELSE JStr(STR_unknown)
       ELSE JNull

\* ------------------------------------------------------------------------
\* State
\* ------------------------------------------------------------------------

VARIABLES
  env,      \* the environment settings read at start-up: cap, mult, rounds
  req,      \* per request: the handler's local state and its call history
  payload,  \* the payload handed to the extractor (pure-function checks)
  extracted, \* the extractor's result for it: [done, threw, text]
  call,     \* one call of a text function: [fn, arg, once, out, steps]
  retr,     \* the corpus and one retrieval: [index, pc, topK, max, results]
  conn      \* one HTTP exchange of a handler: its position, what it wrote

vars == <<env, req, payload, extracted, call, retr, conn>>

\* ------------------------------------------------------------------------
\* Bounds of the model
\* ------------------------------------------------------------------------

\* the number of requests that may be in progress together
NumReqs == 2

\* the largest numeric AUTOCONTINUE_ROUNDS setting and body.rounds value
MaxRoundsSetting == 3

Reqs == 1..NumReqs

\* ------------------------------------------------------------------------
\* Token budgets
\* ------------------------------------------------------------------------

MAX_TOKEN_CAP == MathMax(Num(128), EnvNumber(env.cap, 3500))

TOKEN_MULT == MathMin(Num(10), MathMax(Num(1), EnvNumber(env.mult, 1)))

AUTOCONTINUE_ROUNDS ==
  MathMin(Num(20), MathMax(Num(1), EnvNumber(env.rounds, 6)))

tokensForLength(length) ==
  CASE length = "concise" -> Num(900)
    [] length = "standard" -> Num(1300)
    [] length = "detailed" -> Num(2000)
    [] length = "ultra" -> Num(3200)
    [] OTHER -> Num(1500)


\* a variant of clampTokens: the ceiling is not applied
clampTokens_noCap(n) ==
  MathMax(Num(64), IF IsFinite(n) THEN n ELSE Num(1500))

clampTokens(n) ==
  MathMax(Num(64), MathMin(MAX_TOKEN_CAP, IF IsFinite(n) THEN n ELSE Num(1500)))

applyMultiplier(n) == clampTokens(RoundTimes(n, TOKEN_MULT))

\* ------------------------------------------------------------------------
\* Style.  A tone or length is a value of the request: a string, undefined
\* (the field is absent), null, a plain object, or an object whose toString
\* and valueOf are not functions. A phrase is kept as one element; "-"
\* stands for the dash of "1200-1500".
\* ------------------------------------------------------------------------

TextArg(s) == [t |-> "str", s |-> s]

UndefArg == [t |-> "undef", s |-> ""]

NullArg == [t |-> "null", s |-> ""]

ObjectArg == [t |-> "obj", s |-> ""]

NoPrimitiveArg == [t |-> "noPrimitive", s |-> ""]

\* a parameter default: it replaces undefined only
withDefault(v, d) == IF v.t = "undef" THEN TextArg(d) ELSE v

\* the conversion of a value to a property key throws a TypeError
keyThrows(v) == v.t = "noPrimitive"

\* the property key a value is converted to
propertyKey(v) ==
  CASE v.t = "str" -> v.s
    [] v.t = "null" -> "null"
    [] v.t = "undef" -> "undefined"
    [] OTHER -> "[object Object]"

toneMap ==
  [balanced |-> "Use a balanced, approachable professional tone.",
   formal |-> "Use a formal, executive-ready tone with precise language.",
   casual |-> "Use a casual, conversational tone with plain language.",
   bold |-> "Use a bold, persuasive tone with clear calls to action.",
   friendly |-> "Use a warm, friendly tone that feels encouraging.",
   authoritative |-> "Use an authoritative, research-backed tone with confident statements.",
   storytelling |-> "Use a storytelling tone with narrative hooks and vivid examples."]

\* lengthMap of the variant with a corpus ("rag") and of the others
lengthMap(variant) ==
  [concise |-> "Target ~600 words. Be tight and focused.",
   standard |-> "Target ~900 words with clear sections.",
   detailed |-> "Target 1200-1500 words with rich detail and examples.",
   ultra |-> IF variant = "rag"
             THEN "Target 2000+ words with exhaustive coverage and case-style depth."
             ELSE "Target 2000+ words with exhaustive coverage."]

\* what an object literal inherits from Object.prototype, as a template
\* literal prints it
ObjectPrototype ==
  [constructor |-> "function Object() { [native code] }",
   toString |-> "function toString() { [native code] }",
   valueOf |-> "function valueOf() { [native code] }",
   hasOwnProperty |-> "function hasOwnProperty() { [native code] }",
   __proto__ |-> "[object Object]"]

\* map[key] || map[fallback]: an own property, else an inherited one, else
\* the fallback (every phrase and every inherited value is truthy)
lookup(map, key, fallback) ==
  IF key \in DOMAIN map THEN map[key]
  ELSE IF key \in DOMAIN ObjectPrototype THEN ObjectPrototype[key]
  ELSE map[fallback]

\* styleInstruction(tone, length) throws
styleThrows(tone, length) ==
  keyThrows(withDefault(tone, "balanced"))
  \/ keyThrows(withDefault(length, "standard"))

\* `${toneMap[tone] || toneMap.balanced} ${lengthMap[length] || lengthMap.standard}`
styleInstruction(variant, tone, length) ==
  << lookup(toneMap, propertyKey(withDefault(tone, "balanced")), "balanced"),
     " ",
     lookup(lengthMap(variant),
            propertyKey(withDefault(length, "standard")), "standard") >>

\* ------------------------------------------------------------------------
\* Messages.  A fixed literal of the program is kept as one element.
\* ------------------------------------------------------------------------

Msg(role, content) == [role |-> role, content |-> content]

SYSTEM_TEXT ==
  <<"You are a focused blog-writing assistant. Write clearly in Markdown with # Title and ## Sections, bullets, numbered steps, and practical advice. Avoid emojis unless asked.">>

CONTINUE_TEXT ==
  <<"Continue from where you stopped. Keep the same structure and style.">>

\* buildMessages of the variant on the GPT-5 family: the style is part of
\* the one system message
buildMessages(userPrompt, tone, length) ==
  << Msg("system", SYSTEM_TEXT \o <<"\n\nStylistic guidance: ">>
                   \o styleInstruction("gpt5", tone, length)),
     Msg("user", userPrompt) >>

BASE_SYSTEM ==
  <<"You are a blog writing assistant trained in Hanza Stephens' voice and style. Write as a calm, strategic operator: practical, structured, and insightful. Favor clear section headings, bullets, and concrete frameworks over fluff.">>

FORMATTING_RULES ==
  <<"Format with clean markdown: use H1/H2/H3 headings, bullets, numbered steps, and code fences for templates where helpful. Avoid emojis unless the user asks. Keep advice concrete and de-jargonized.">>

REFS_HEADING ==
  "### REFERENCE EXCERPTS (Use for tone & examples; do not cite verbatim)"

\* `- Source ${i+1}: ${r.title}\n${r.content.trim()}` for each chunk, joined
\* by "\n\n"; i counts from 1 here
RECURSIVE sourceBlocks(_, _)
sourceBlocks(retrieved, i) ==
  IF i > Len(retrieved) THEN <<>>
  ELSE (IF i > 1 THEN <<"\n", "\n">> ELSE <<>>)
       \o <<"- Source ", ToString(i), ": ", retrieved[i].title, "\n">>
       \o Trim(retrieved[i].content)
       \o sourceBlocks(retrieved, i + 1)

\* buildMessages of the variant with a corpus; styleGuide is STYLE_GUIDE
buildMessages_rag(userPrompt, tone, length, retrieved, styleGuide) ==
  LET guide == IF styleGuide # <<>>
               THEN <<"\n", "\n", "### VOICE GUIDE (Highest priority)", "\n">>
                    \o styleGuide
                    \o <<"\n", "\n", "Follow this guide strictly.">>
               ELSE <<>>
      refs == IF retrieved # <<>>
              THEN <<"\n", "\n", REFS_HEADING, "\n">>
                   \o sourceBlocks(retrieved, 1)
              ELSE <<>>
  IN  << Msg("system", BASE_SYSTEM \o guide \o <<"\n", "\n">>
                       \o FORMATTING_RULES \o refs),
         Msg("system", <<"Stylistic guidance: ">>
                       \o styleInstruction("rag", tone, length)),
         Msg("user", userPrompt) >>

\* buildMessages of the variant without a corpus
buildMessages_plain(userPrompt, tone, length) ==
  << Msg("system", BASE_SYSTEM),
     Msg("system", <<"Stylistic guidance: ">>
                   \o styleInstruction("plain", tone, length)),
     Msg("user", userPrompt) >>

\* the two turns a continuation appends to the base prompt
continuationTurns(text) ==
  << Msg("assistant", text), Msg("user", CONTINUE_TEXT) >>

\* messagesToPlainString: "ROLE:\ncontent" per message, joined by "\n\n"
RECURSIVE messagesToPlainString(_)
roleUpper(role) ==
  CASE role = "system" -> "SYSTEM"
    [] role = "user" -> "USER"
    [] role = "assistant" -> "ASSISTANT"

messagesToPlainString(messages) ==
  IF messages = <<>> THEN <<>>
  ELSE LET m == Head(messages)
           one == <<roleUpper(m.role), ":", "\n">> \o m.content
       IN  IF Len(messages) = 1 THEN one
           ELSE one \o <<"\n", "\n">> \o messagesToPlainString(Tail(messages))

\* ------------------------------------------------------------------------
\* One request.  A request record holds the handler's locals (messages,
\* baseMessages, tokens, rounds, i, acc, lastReason), the calls in flight,
\* and the history of the call bodies sent and of the round results.
\* pc: "absent" (never arrives), "idle" (arrived, handler not yet run),
\* "calling" (suspended at the await of a completion call), "done"
\* (returned), "failed" (the call threw and the handler answered the error)
\* ------------------------------------------------------------------------

NoReturn == [text |-> <<>>, incompleteReason |-> JNull]

NewReq(pc, kind, length, bodyRounds, bodyTokens) ==
  [pc |-> pc, kind |-> kind, length |-> length,
   bodyRounds |-> bodyRounds, bodyTokens |-> bodyTokens,
   messages |-> <<>>, baseMessages |-> <<>>, tokens |-> Num(0),
   rounds |-> Num(0), i |-> 0, acc |-> <<>>, lastReason |-> JNull,
   inflight |-> <<>>, calls |-> <<>>, results |-> <<>>, ret |-> NoReturn]

AbsentReq == NewReq("absent", "chat", "standard", Undefined, Undefined)

\* the request text of every request
USER_TEXT == <<"q">>


\* a variant of isTruncated: every reason continues the loop
isTruncated_anyReason(reason) == reason.t = "str"

isTruncated(reason) == reason.t = "str" /\ reason.s = STR_max_output_tokens


\* a variant of accumulate: an empty text is appended like any other
accumulate_noGuard(acc, text) ==
  acc \o (IF acc # <<>> THEN <<"\n">> ELSE <<>>) \o text

\* acc += (acc ? "\n" : "") + text, when text is not empty
accumulate(acc, text) ==
  IF text # <<>>
  THEN acc \o (IF acc # <<>> THEN <<"\n">> ELSE <<>>) \o text
  ELSE acc

\* the fetch of one call leaves: the body is in flight until it resolves
sendBody(q, tokens) ==
  LET body == [messages |-> q.baseMessages,
               input |-> messagesToPlainString(q.baseMessages),
               max_output_tokens |-> tokens]
  IN  [q EXCEPT !.pc = "calling",
                !.inflight = Append(@, body),
                !.calls = Append(@, body)]


\* a variant of callOnce: the call is not awaited, a second one leaves too
callOnce_notAwaited(q) ==
  sendBody(sendBody(q, clampTokens(q.tokens)), clampTokens(q.tokens))

\* callOnce up to its await: the body carries clampTokens(tokens)
callOnce(q) == sendBody(q, clampTokens(q.tokens))

\* return { text: acc, incompleteReason: lastReason }
returnResult(q) ==
  [q EXCEPT !.pc = "done",
            !.ret = [text |-> q.acc, incompleteReason |-> q.lastReason]]

\* the loop test of completeWithAutoContinue, then the next call or the
\* return
completeWithAutoContinue_loop(q) ==
  IF JsLess(Num(q.i), MathMax(Num(1), q.rounds))
  THEN callOnce(q)
  ELSE returnResult(q)

\* the rest of a round once the call has resolved with payload data:
\* callOnce's extraction, then the loop body after the await
completeWithAutoContinue_round(q, data) ==
  LET text == extractResponseText(data)
      incompleteReason == getIncompleteReason(data)
      q1 == [q EXCEPT !.inflight = Tail(@),
                      !.results = Append(@, [text |-> text,
                                    incompleteReason |-> incompleteReason]),
                      !.acc = accumulate(@, text),
                      !.lastReason = incompleteReason]
  IN  IF ~isTruncated(incompleteReason) THEN returnResult(q1)
      ELSE completeWithAutoContinue_loop(
             [q1 EXCEPT !.baseMessages = q.messages \o continuationTurns(text),
                        !.tokens = clampTokens(RoundTimes125(@)),
                        !.i = @ + 1])

\* POST /api/chat from its first line to the first await (the request is
\* accepted: it has a message, DEMO is off, a key is set, the model is GPT-5)
apiChat_start(q) ==
  LET messages == buildMessages(USER_TEXT, TextArg("balanced"), TextArg(q.length))
      tokenBudget == applyMultiplier(tokensForLength(q.length))
  IN  completeWithAutoContinue_loop(
        [q EXCEPT !.messages = messages, !.baseMessages = messages,
                  !.tokens = tokenBudget, !.rounds = AUTOCONTINUE_ROUNDS,
                  !.i = 0, !.acc = <<>>, !.lastReason = JNull])

\* the loop test of POST /api/raw, then the next fetch or the response
apiRaw_loop(q) ==
  IF JsLess(Num(q.i), q.rounds)
  THEN sendBody(q, q.tokens)
  ELSE returnResult(q)

\* POST /api/raw: the loop body after the await
apiRaw_round(q, data) ==
  LET piece == extractResponseText(data)
      incompleteReason == getIncompleteReason(data)
      q1 == [q EXCEPT !.inflight = Tail(@),
                      !.results = Append(@, [text |-> piece,
                                    incompleteReason |-> incompleteReason]),
                      !.acc = accumulate(@, piece),
                      !.lastReason = incompleteReason]
  IN  IF ~isTruncated(incompleteReason) THEN returnResult(q1)
      ELSE apiRaw_loop(
             [q1 EXCEPT !.baseMessages = q.messages \o continuationTurns(piece),
                        !.tokens = clampTokens(RoundTimes125(@)),
                        !.i = @ + 1])

\* POST /api/raw from its first line to the first await
apiRaw_start(q) ==
  LET baseMsgs == buildMessages(USER_TEXT, TextArg("balanced"), TextArg(q.length))
      tokens == clampTokens(Coalesce(q.bodyTokens,
                              applyMultiplier(tokensForLength(q.length))))
      ROUNDS == MathMin(Num(20),
                  MathMax(Num(1), ToNumber(OrElse(q.bodyRounds, Num(1)))))
  IN  apiRaw_loop(
        [q EXCEPT !.messages = baseMsgs, !.baseMessages = baseMsgs,
                  !.tokens = tokens, !.rounds = ROUNDS,
                  !.i = 0, !.acc = <<>>, !.lastReason = JNull])

\* the call in flight rejects (transport failure or a non-success status):
\* the exception leaves the loop and the handler answers it
callFailed(q) == [q EXCEPT !.pc = "failed", !.inflight = Tail(@)]

\* ------------------------------------------------------------------------
\* The payloads a completion call resolves with
\* ------------------------------------------------------------------------

STR_content_filter ==
  <<"c", "o", "n", "t", "e", "n", "t", "_", "f", "i", "l", "t", "e", "r">>

truncatedStatus ==
  << KV("status", JStr(STR_incomplete)),
     KV("incomplete_details",
        JObj(<<KV("reason", JStr(STR_max_output_tokens))>>)) >>

STR_PartOne == <<"P", "a", "r", "t", " ", "o", "n", "e", ".">>

STR_PartTwo == <<"P", "a", "r", "t", " ", "t", "w", "o", ".">>

\* { output_text: "Part two." }: complete
PayloadComplete == JObj(<<KV("output_text", JStr(STR_PartTwo))>>)

\* truncated, text "Part one." in an assistant message of the output tree
PayloadTruncated ==
  JObj(truncatedStatus \o
       << KV("output", JArr(<<
            JObj(<< KV("role", JStr(STR_assistant)),
                    KV("content", JArr(<<
                       JObj(<< KV("type", JStr(STR_output_text)),
                               KV("text", JStr(STR_PartOne)) >>) >>)) >>) >>)) >>)

\* truncated before any text was produced
PayloadTruncatedEmpty == JObj(truncatedStatus)

\* incomplete for another reason, text "a"
PayloadFiltered ==
  JObj(<< KV("status", JStr(STR_incomplete)),
          KV("incomplete_details",
             JObj(<<KV("reason", JStr(STR_content_filter))>>)),
          KV("output_text", JStr(<<"a">>)) >>)

\* incomplete without details: reason "unknown", no text
PayloadUnknown == JObj(<<KV("status", JStr(STR_incomplete))>>)

\* {}: what fetchJSON returns for a body that is not JSON
PayloadEmpty == JObj(<<>>)

RoundPayloads ==
  {PayloadComplete, PayloadTruncated, PayloadTruncatedEmpty,
   PayloadFiltered, PayloadUnknown, PayloadEmpty}

\* ------------------------------------------------------------------------
\* Initial states
\* ------------------------------------------------------------------------

\* RESP_MAX_TOKENS_CAP: unset, or a numeric setting (below the floor of
\* 128, or between the budgets of the lengths)
EnvCapValues == {Undefined, Num(100), Num(2000)}

\* TOKEN_MULTIPLIER: unset, not numeric, or numeric (3; 50 is cut to 10)
EnvMultValues == {Undefined, TextVal, Num(3), Num(50)}

\* AUTOCONTINUE_ROUNDS: unset, not numeric, or numeric
EnvRoundsValues == {Undefined, TextVal, Num(0), Num(MaxRoundsSetting)}

Lengths == {"concise", "standard", "detailed", "ultra", "other"}

\* body.rounds of /api/raw: absent, not numeric, or numeric
BodyRoundsValues == {Undefined, TextVal, Num(0), Num(MaxRoundsSetting)}

\* body.max_output_tokens of /api/raw: absent, not a number, or a number
BodyTokensValues == {Undefined, TextVal, Num(10), Num(5000)}

ChatRequests ==
  {NewReq("idle", "chat", l, Undefined, Undefined) : l \in Lengths}

RawRequests ==
  {NewReq("idle", "raw", l, br, bt) :
     l \in {"standard", "ultra"}, br \in BodyRoundsValues,
     bt \in BodyTokensValues}

NoExtraction == [done |-> FALSE, threw |-> FALSE, text |-> <<>>]

\* no text function has been called
NoCall == [fn |-> "none", arg |-> <<>>, once |-> <<>>, out |-> <<>>, steps |-> 0]

\* no exchange is open
NoConn ==
  [variant |-> "none", pc |-> "idle", flags |-> {}, closed |-> FALSE,
   listening |-> FALSE, aborted |-> FALSE, writes |-> <<>>, ends |-> 0,
   calls |-> <<>>, pending |-> <<>>, leftover |-> <<>>, reads |-> 0,
   upstream |-> 0, upstreamBody |-> <<>>, readTo |-> 0,
   failure |-> "none", status |-> 0,
   body |-> [field |-> "none", warning |-> FALSE]]

\* no corpus is loaded and no retrieval runs. index holds the records of
\* RAG_INDEX, hasRecords tells whether RAG_INDEX is an object with a records
\* field, version numbers the values RAG_INDEX has had, reloads counts the
\* requests to reload it; checked and scored are the versions retrieveSimilar
\* read before and after its await
NoRetrieval ==
  [index |-> <<>>, hasRecords |-> TRUE, version |-> 0, reloads |-> 0,
   pc |-> "idle", topK |-> 0, max |-> 0, results |-> <<>>,
   checked |-> 0, scored |-> 0]

\* one request, for every environment and every request input
Init ==
  /\ env \in [cap : EnvCapValues, mult : EnvMultValues,
              rounds : EnvRoundsValues]
  /\ \E q \in ChatRequests \cup RawRequests :
       req = [r \in Reqs |-> IF r = 1 THEN q ELSE AbsentReq]
  /\ payload = JNull
  /\ extracted = NoExtraction
  /\ conn = NoConn
  /\ call = NoCall
  /\ retr = NoRetrieval

\* NumReqs requests together, two rounds allowed
InitConc ==
  /\ env = [cap |-> Undefined, mult |-> Undefined, rounds |-> Num(2)]
  /\ req \in [Reqs -> {NewReq("idle", "chat", "standard", Undefined, Undefined),
                       NewReq("idle", "raw", "ultra", Num(2), Undefined)}]
  /\ payload = JNull
  /\ extracted = NoExtraction
  /\ conn = NoConn
  /\ call = NoCall
  /\ retr = NoRetrieval

\* ------------------------------------------------------------------------
\* Actions
\* ------------------------------------------------------------------------

\* POST /api/chat runs up to its first await
ChatStart(r) ==
  /\ req[r].pc = "idle" /\ req[r].kind = "chat"
  /\ req' = [req EXCEPT ![r] = apiChat_start(@)]
  /\ UNCHANGED <<env, payload, extracted, call, retr, conn>>

\* a completion call of a chat request resolves and the handler runs on to
\* its next await or to its return
ChatRound(r) ==
  /\ req[r].pc = "calling" /\ req[r].kind = "chat"
  /\ \E data \in RoundPayloads :
       req' = [req EXCEPT ![r] = completeWithAutoContinue_round(@, data)]
  /\ UNCHANGED <<env, payload, extracted, call, retr, conn>>

\* POST /api/raw runs up to its first await
RawStart(r) ==
  /\ req[r].pc = "idle" /\ req[r].kind = "raw"
  /\ req' = [req EXCEPT ![r] = apiRaw_start(@)]
  /\ UNCHANGED <<env, payload, extracted, call, retr, conn>>

\* a completion call of a raw request resolves
RawRound(r) ==
  /\ req[r].pc = "calling" /\ req[r].kind = "raw"
  /\ \E data \in RoundPayloads :
       req' = [req EXCEPT ![r] = apiRaw_round(@, data)]
  /\ UNCHANGED <<env, payload, extracted, call, retr, conn>>

\* a completion call rejects
CallFails(r) ==
  /\ req[r].pc = "calling"
  /\ req' = [req EXCEPT ![r] = callFailed(@)]
  /\ UNCHANGED <<env, payload, extracted, call, retr, conn>>

Next ==
  \E r \in Reqs :
    ChatStart(r) \/ ChatRound(r) \/ RawStart(r) \/ RawRound(r) \/ CallFails(r)

Spec == Init /\ [][Next]_vars

SpecConc == InitConc /\ [][Next]_vars

\* ------------------------------------------------------------------------
\* Claims about the continuation loop
\* ------------------------------------------------------------------------

ChatReqs == {r \in Reqs : req[r].kind = "chat" /\ req[r].pc # "absent"}

LiveReqs == {r \in Reqs : req[r].pc # "absent"}

\* the reason is the output-length sentinel
IsSentinel(reason) == reason = JStr(STR_max_output_tokens)

\* C1: completeWithAutoContinue issues at least one and at most maxRounds
\* completion calls and then returns, where maxRounds = AUTOCONTINUE_ROUNDS
\* is within 1..20 for every value of the environment setting; when every
\* round reports max_output_tokens it returns after exactly maxRounds calls.
C1_CallsWithinMaxRounds ==
  \A r \in ChatReqs :
    req[r].pc = "done" =>
      /\ AUTOCONTINUE_ROUNDS.k = "num"
      /\ AUTOCONTINUE_ROUNDS.v \in 1..20
      /\ Len(req[r].calls) >= 1
      /\ Len(req[r].calls) <= AUTOCONTINUE_ROUNDS.v
      /\ (\A k \in 1..Len(req[r].results) :
            IsSentinel(req[r].results[k].incompleteReason))
           => Len(req[r].calls) = AUTOCONTINUE_ROUNDS.v

\* the non-empty texts of the rounds, one newline between neighbours
RECURSIVE JoinLines(_)
JoinLines(texts) ==
  IF texts = <<>> THEN <<>>
  ELSE IF Len(texts) = 1 THEN texts[1]
  ELSE texts[1] \o <<"\n">> \o JoinLines(Tail(texts))

RoundTexts(results) ==
  LET NonEmpty(x) == x # <<>>
  IN  SelectSeq([k \in 1..Len(results) |-> results[k].text], NonEmpty)

\* C2: completeWithAutoContinue returns as text the non-empty texts of the
\* rounds it ran, in round order, with exactly one newline between
\* consecutive non-empty texts, and as incompleteReason the reason of the
\* last round it ran.
C2_TextIsJoinedRounds ==
  \A r \in ChatReqs :
    req[r].pc = "done" =>
      /\ req[r].ret.text = JoinLines(RoundTexts(req[r].results))
      /\ req[r].results # <<>> =>
           req[r].ret.incompleteReason =
             req[r].results[Len(req[r].results)].incompleteReason

\* rounds ("Part one.", max_output_tokens), ("", max_output_tokens),
\* ("Part two.", null) have returned "Part one.\nPart two." and null
C2_Witness ==
  \E r \in ChatReqs :
    /\ req[r].pc = "done"
    /\ Len(req[r].results) = 3
    /\ req[r].results[1].text = STR_PartOne
    /\ req[r].results[2].text = <<>>
    /\ req[r].results[3].text = STR_PartTwo
    /\ req[r].ret.text = STR_PartOne \o <<"\n">> \o STR_PartTwo
    /\ req[r].ret.incompleteReason = JNull

\* C3: after a round whose incompleteReason is anything other than
\* max_output_tokens, no further completion call is issued for the request:
\* the calls issued number exactly the rounds recorded up to that round.
C3_NoCallAfterOtherReason ==
  \A r \in LiveReqs :
    \A k \in 1..Len(req[r].results) :
      ~IsSentinel(req[r].results[k].incompleteReason)
        => Len(req[r].calls) = k

\* a first round ended with reason "unknown" while rounds were still
\* allowed, and the request returned after that one call
C3_Witness ==
  \E r \in LiveReqs :
    /\ req[r].pc = "done"
    /\ Len(req[r].results) = 1
    /\ req[r].results[1].incompleteReason = JStr(STR_unknown)
    /\ JsLess(Num(1), req[r].rounds)
    /\ Len(req[r].calls) = 1

GrownBudget(b) ==
  LET g == (5 * b + 2) \div 4
      c == IF g > MAX_TOKEN_CAP.v THEN MAX_TOKEN_CAP.v ELSE g
  IN  IF c < 64 THEN 64 ELSE c

\* C5: across the rounds of one request the token budget never decreases:
\* each continuation replaces the budget b by clamp(round(1.25 * b)), which
\* is at least b and at most CAP.
C5_BudgetNeverDecreases ==
  \A r \in LiveReqs :
    \A k \in 1..(Len(req[r].calls) - 1) :
      LET b == req[r].calls[k].max_output_tokens.v
          n == req[r].calls[k + 1].max_output_tokens.v
      IN  /\ n = GrownBudget(b)
          /\ n >= b
          /\ n <= MAX_TOKEN_CAP.v

\* a request whose budget grew from 900 to 1125 and then to 1406
C5_Witness ==
  \E r \in LiveReqs :
    /\ Len(req[r].calls) >= 3
    /\ req[r].calls[1].max_output_tokens = Num(900)
    /\ req[r].calls[2].max_output_tokens = Num(1125)
    /\ req[r].calls[3].max_output_tokens = Num(1406)

\* C6: within one request at most one completion call is outstanding at any
\* time, and the call of round N+1 is issued only after round N's text and
\* incompleteReason have been recorded, while other requests run their own
\* rounds in between.
C6_RoundsSequential ==
  \A r \in LiveReqs :
    /\ Len(req[r].inflight) <= 1
    /\ Len(req[r].calls) <= Len(req[r].results) + 1
    /\ req[r].pc = "calling" =>
         /\ Len(req[r].inflight) = 1
         /\ Len(req[r].calls) = Len(req[r].results) + 1

\* two requests each wait for their second call at the same time
C6_Witness ==
  \E r1, r2 \in LiveReqs :
    /\ r1 # r2
    /\ req[r1].pc = "calling" /\ Len(req[r1].calls) = 2
    /\ req[r2].pc = "calling" /\ Len(req[r2].calls) = 2

\* C7: the message list of each continuation call is the message list of
\* the previous call with two turns appended (the assistant text just
\* produced, the request to continue), so the call of round k (0-based)
\* carries the base prompt plus 2k further messages.
C7_HistoryGrowsByTwo ==
  \A r \in LiveReqs :
    \A k \in 1..Len(req[r].calls) :
      /\ Len(req[r].calls[k].messages) = Len(req[r].messages) + 2 * (k - 1)
      /\ k > 1 =>
           req[r].calls[k].messages =
             req[r].calls[k - 1].messages
               \o continuationTurns(req[r].results[k - 1].text)

\* ------------------------------------------------------------------------
\* The extractor as a pure function: payloads and the step that applies it
\* ------------------------------------------------------------------------

STR_user == <<"u", "s", "e", "r">>

STR_system == <<"s", "y", "s", "t", "e", "m">>

STR_input_text == <<"i", "n", "p", "u", "t", "_", "t", "e", "x", "t">>

STR_function_call ==
  <<"f", "u", "n", "c", "t", "i", "o", "n", "_", "c", "a", "l", "l">>

\* the texts of the payloads: "A" is assistant text, "U" text of a user or
\* system node, "T" the arguments of a tool call, "S" text of a sibling of
\* a top-level output_text
AssistantText == <<"A">>

UserText == <<"U">>

ToolText == <<"T">>

SiblingText == <<"S">>

\* the depth to which an assistant node is nested
MaxDepth == 3

\* an object with the optional tags role and type and one further field
TaggedNode(role, type, k, v) ==
  JObj((IF role = <<>> THEN <<>> ELSE <<KV("role", JStr(role))>>)
       \o (IF type = <<>> THEN <<>> ELSE <<KV("type", JStr(type))>>)
       \o <<KV(k, v)>>)

\* node held under the keys of chain, outermost first, each level an
\* object, or an array of one object when viaArray
RECURSIVE Nest(_, _, _)
Nest(chain, viaArray, node) ==
  IF chain = <<>> THEN node
  ELSE LET inner == Nest(Tail(chain), viaArray, node)
       IN  JObj(<<KV(Head(chain), IF viaArray THEN JArr(<<inner>>) ELSE inner)>>)

\* an assistant message as the Responses API returns it
AssistantMessage ==
  TaggedNode(STR_assistant, <<>>, "content",
             JArr(<<TaggedNode(<<>>, STR_output_text, "text",
                               JStr(AssistantText))>>))

\* assistant-role nodes holding their text in one of the candidate fields
AssistantNodes ==
  {TaggedNode(STR_assistant, <<>>, k, JStr(AssistantText)) : k \in
     {"output_text", "text", "content", "value", "message"}}
  \cup {AssistantMessage}

\* the container fields of the extractor, and a key that is none
KnownChainKeys ==
  {"output", "content", "message", "messages", "choices", "arguments",
   "items", "parts", "data"}

OtherChainKeys == {"result"}

Chains(K) ==
  UNION {[1..d -> K] : d \in 1..MaxDepth}

\* every chain of keys of K with the assistant message as the API returns
\* it, and the chains of two container fields of K with every assistant
\* node, through objects and through arrays
NestedPayloads(K) ==
  {Nest(c, TRUE, AssistantMessage) : c \in Chains(K)}
  \cup {Nest(c, via, n) :
          c \in Chains(K \ (KnownChainKeys \ {"output", "message"})),
          via \in BOOLEAN, n \in AssistantNodes}

\* an assistant node nested under known container fields only
NestedKnownPayloads == NestedPayloads(KnownChainKeys)

\* an assistant node nested under keys some of which are no container field
NestedAnyPayloads == NestedPayloads(KnownChainKeys \cup OtherChainKeys)

\* the shapes in which a node holds a text t
TextShapes(t) ==
  {JStr(t), JArr(<<JStr(t)>>),
   JArr(<<TaggedNode(<<>>, STR_input_text, "text", JStr(t))>>)}

\* nodes of role user or system whose type tag is none of the output tags
UserNodes ==
  {TaggedNode(role, type, k, v) :
     role \in {STR_user, STR_system},
     type \in {<<>>, STR_input_text},
     k \in {"text", "content", "value", "message", "items", "delta"},
     v \in TextShapes(UserText)}

\* a tool call with string arguments
ToolCallNode ==
  TaggedNode(<<>>, STR_function_call, "arguments", JStr(ToolText))

\* an assistant message with a sibling user, system or tool-call node
SiblingPayloads ==
  {JObj(<<KV("output", JArr(<<AssistantMessage, u>>))>>) :
     u \in UserNodes \cup {ToolCallNode}}

\* the top-level output_text values: strings and arrays of strings
TopTexts ==
  {JStr(<<"a">>), JStr(<<" ", "a", ".", "b", " ">>),
   JStr(<<"a", " ", ",", "b", "\r", "\n">>),
   JArr(<<JStr(<<"a", ".">>), JStr(<<"b">>)>>),
   JArr(<<JStr(<<"a">>), JStr(<<>>), JStr(<<" ", "b", " ">>)>>),
   JArr(<<JStr(<<>>)>>)}

\* what else the payload holds beside its top-level output_text
TopSiblings ==
  {<<>>,
   <<KV("output", JArr(<<TaggedNode(STR_assistant, <<>>, "content",
                                    JStr(SiblingText))>>))>>,
   <<KV("text", JStr(SiblingText))>>,
   <<KV("delta", JStr(SiblingText))>>,
   <<KV("status", JStr(STR_incomplete)),
     KV("choices", JArr(<<TaggedNode(<<>>, STR_output_text, "text",
                                     JStr(SiblingText))>>))>>}

\* payloads with a non-empty top-level output_text, before or after the
\* rest of the payload
FastPathPayloads ==
  {JObj(<<KV("output_text", t)>> \o sib) : t \in TopTexts, sib \in TopSiblings}
  \cup {JObj(sib \o <<KV("output_text", t)>>) : t \in TopTexts, sib \in TopSiblings}

\* payloads that are no object, or hold no text
PlainPayloads ==
  {JNull, JTrue, JStr(AssistantText), JArr(<<>>), JObj(<<>>),
   JArr(<<JStr(AssistantText), JNull, JStr(<<".">>)>>),
   JObj(<<KV("output_text", JStr(<<>>))>>),
   JObj(<<KV("output_text", JArr(<<>>))>>)}

\* the values a malformed payload holds where a text or a node is expected
Fillers ==
  {JNull, JTrue, JFalse, JStr(<<>>), JStr(AssistantText), JArr(<<>>),
   JArr(<<JNull>>), JObj(<<>>)}

\* the fields the extractor reads
ReadKeys == {"role", "type", "output_text", "text", "delta", "content", "data"}

\* malformed payloads: every filler, alone, in pairs in an array and under
\* every field the extractor reads, two levels deep, with and without an
\* assistant role
MalformedInner ==
  Fillers
  \cup {JObj(<<KV(k, v)>>) : k \in ReadKeys, v \in Fillers}
  \cup {JArr(<<v, w>>) : v \in Fillers, w \in Fillers}

MalformedPayloads ==
  MalformedInner
  \cup {JObj(<<KV(k, v)>>) : k \in ReadKeys, v \in MalformedInner}
  \cup {TaggedNode(STR_assistant, <<>>, k, v) :
          k \in ReadKeys \ {"role"}, v \in Fillers}

ExtractPayloads ==
  NestedAnyPayloads \cup SiblingPayloads \cup FastPathPayloads
  \cup PlainPayloads \cup MalformedPayloads

\* a payload is given; no request is in progress
InitExtract ==
  /\ env = [cap |-> Undefined, mult |-> Undefined, rounds |-> Undefined]
  /\ req = [r \in Reqs |-> AbsentReq]
  /\ payload \in ExtractPayloads
  /\ extracted = NoExtraction
  /\ conn = NoConn
  /\ call = NoCall
  /\ retr = NoRetrieval

\* extractResponseText(payload) is called
Extract ==
  /\ ~extracted.done
  /\ extracted' = [done |-> TRUE,
                   threw |-> extractThrows(payload),
                   text |-> IF extractThrows(payload) THEN <<>>
                            ELSE extractResponseText(payload)]
  /\ UNCHANGED <<env, req, payload, call, retr, conn>>

NextExtract == Extract

SpecExtract == InitExtract /\ [][NextExtract]_vars

\* ------------------------------------------------------------------------
\* Claims about the extractor
\* ------------------------------------------------------------------------

Chars(s) == {s[i] : i \in 1..Len(s)}

\* C8: extractResponseText never includes text that occurs only under a
\* node whose inherited role is user or system and whose type tag is none
\* of the output tags, nor the string value of a tool-call arguments field:
\* a sibling user-role node's text is ignored.
C8_NoUserOrToolText ==
  (extracted.done /\ payload \in SiblingPayloads) =>
    /\ "U" \notin Chars(extracted.text)
    /\ "T" \notin Chars(extracted.text)

TopTextOf(data) ==
  LET ot == Get(data, "output_text")
  IN  IF ot.t = "str" THEN ot.s
      ELSE Concat([i \in 1..Len(ot.a) |-> ot.a[i].s])

\* C10: when the payload has a non-empty top-level output_text (a string or
\* an array of strings), extractResponseText returns exactly
\* normalizeOutputText of that field (array elements concatenated) and
\* nothing from any sibling or nested structure.
C10_FastPathOnly ==
  (extracted.done /\ payload \in FastPathPayloads) =>
    /\ extracted.text = normalizeOutputText(TopTextOf(payload))
    /\ "S" \notin Chars(extracted.text)

\* an untrimmed output_text beside an assistant message came back
\* normalized, untrimmed and alone
C10_Witness ==
  /\ extracted.done
  /\ Get(payload, "output_text") = JStr(<<" ", "a", ".", "b", " ">>)
  /\ JTruthy(Get(payload, "output"))
  /\ extracted.text = <<" ", "a", ".", " ", "b", " ">>

\* ------------------------------------------------------------------------
\* Claims about malformed payloads
\* ------------------------------------------------------------------------

\* the characters a text can hold
AllChars ==
  WordCh \cup Space \cup Punct \cup {"(", ")", "[", "]", "-", "'", "\"", "/"}

\* whether a payload holds a non-empty string value anywhere
RECURSIVE HoldsText(_)
HoldsText(n) ==
  \/ n.t = "str" /\ n.s # <<>>
  \/ \E i \in 1..Len(n.a) : HoldsText(n.a[i])
  \/ \E i \in 1..Len(n.f) : HoldsText(n.f[i].v)

\* whether one of the fast paths on the top-level output_text applies
TakesFastPath(data) ==
  LET ot == Get(data, "output_text")
  IN  (ot.t = "str" /\ ot.s # <<>>) \/ (ot.t = "arr" /\ ot.a # <<>>)

MaxTextLen == 5

MaxParts == 3

\* the strings of at most n characters of A
StringsUpTo(A, n) == UNION {[1..k -> A] : k \in 0..n}

\* a letter, a capital, a period, another punctuation mark and a space
NormChars == {"a", "B", ".", ",", " "}

\* the fragments joined: empty, words, brackets, punctuation, white space
Fragments ==
  {<<>>, <<"a">>, <<"b", ".">>, <<",">>, <<" ">>, <<")">>, <<"(">>,
   <<"a", " ">>, <<".", "c">>, <<"\n">>}

STR_end == <<"e", "n", "d", ".">>

STR_Next == <<"N", "e", "x", "t">>

STR_word == <<"w", "o", "r", "d">>

\* the four joins the specification gives
ExampleJoins ==
  {<<(<<"a">>), (<<"b">>)>>, <<STR_end, STR_Next>>, <<STR_word, (<<")">>)>>,
   <<(<<>>), (<<"x">>)>>}

JoinInputs == StringsUpTo(Fragments, MaxParts) \cup ExampleJoins

InitText ==
  /\ env = [cap |-> Undefined, mult |-> Undefined, rounds |-> Undefined]
  /\ req = [r \in Reqs |-> AbsentReq]
  /\ payload = JNull
  /\ extracted = NoExtraction
  /\ conn = NoConn
  /\ retr = NoRetrieval
  /\ \/ \E s \in StringsUpTo(NormChars, MaxTextLen) :
          call = [fn |-> "normalize", arg |-> s, once |-> <<>>, out |-> s,
                  steps |-> 0]
     \/ \E parts \in JoinInputs :
          call = [fn |-> "join", arg |-> parts, once |-> <<>>, out |-> <<>>,
                  steps |-> 0]

\* normalizeOutputText is applied to the string, and then to its result
Normalize ==
  /\ call.fn = "normalize" /\ call.steps < 2
  /\ call' = [call EXCEPT !.out = normalizeOutputText(@),
                          !.once = IF call.steps = 0
                                   THEN normalizeOutputText(call.out) ELSE @,
                          !.steps = @ + 1]
  /\ UNCHANGED <<env, req, payload, extracted, retr, conn>>

\* smartJoin is applied to the fragments
Join ==
  /\ call.fn = "join" /\ call.steps = 0
  /\ call' = [call EXCEPT !.out = smartJoin(call.arg), !.steps = 1]
  /\ UNCHANGED <<env, req, payload, extracted, retr, conn>>

NextText == Normalize \/ Join

SpecText == InitText /\ [][NextText]_vars

\* C12: normalizeOutputText is idempotent: applied twice it gives what it
\* gives applied once, also for several period-separated letters in a row.
C12_NormalizeIdempotent ==
  (call.fn = "normalize" /\ call.steps = 2) => call.out = call.once

\* the fragments joined by the rule of the seams alone: an empty fragment
\* adds nothing, a fragment after a non-empty text is preceded by one space
\* exactly in the three cases, and by nothing otherwise
SeamSpace(last, next) ==
  \/ last \in WordCh /\ next \in WordCh
  \/ last \in {")", "]"} /\ next \in WordCh
  \/ last \in {".", ",", ";", ":", "!", "?"}
       /\ next \notin Space \cup {".", ",", ";", ":", "!", "?", ")", "]"}

RECURSIVE SeamJoin(_, _)
SeamJoin(text, parts) ==
  IF parts = <<>> THEN text
  ELSE LET p == Head(parts)
       IN  IF p = <<>> THEN SeamJoin(text, Tail(parts))
           ELSE IF text = <<>> THEN SeamJoin(p, Tail(parts))
           ELSE SeamJoin(text
                         \o (IF SeamSpace(text[Len(text)], p[1])
                             THEN <<" ">> ELSE <<>>)
                         \o p, Tail(parts))

\* white space directly before a punctuation mark: the characters the
\* closing pass of the join takes out
BeforePunct(s, i) ==
  /\ s[i] \in Space
  /\ \E j \in (i + 1)..Len(s) :
       /\ s[j] \in {".", ",", ";", ":", "!", "?"}
       /\ \A k \in (i + 1)..(j - 1) : s[k] \in Space

RECURSIVE KeepFrom(_, _)
KeepFrom(s, i) ==
  IF i > Len(s) THEN <<>>
  ELSE (IF BeforePunct(s, i) THEN <<>> ELSE <<s[i]>>) \o KeepFrom(s, i + 1)

\* C13: smartJoin skips empty fragments and puts exactly one space at a
\* seam in the three cases of the rule and nothing otherwise (the text is
\* then rid of white space before punctuation); "a","b" gives "a b",
\* "end.","Next" gives "end. Next", "word",")" gives "word)", "","x" "x".
C13_SeamRule ==
  (call.fn = "join" /\ call.steps = 1) =>
    /\ call.out = KeepFrom(SeamJoin(<<>>, call.arg), 1)
    /\ call.arg = <<(<<"a">>), (<<"b">>)>> => call.out = <<"a", " ", "b">>
    /\ call.arg = <<STR_end, STR_Next>> => call.out = STR_end \o <<" ">> \o STR_Next
    /\ call.arg = <<STR_word, (<<")">>)>> => call.out = STR_word \o <<")">>
    /\ call.arg = <<(<<>>), (<<"x">>)>> => call.out = <<"x">>

\* a join with an empty fragment between a closing bracket and a word,
\* whose seam takes a space
C13_Witness ==
  /\ call.fn = "join" /\ call.steps = 1
  /\ call.arg = <<(<<")">>), (<<>>), (<<"a">>)>>
  /\ call.out = <<")", " ", "a">>

\* ------------------------------------------------------------------------
\* Retrieval (the variant with a corpus)
\* ------------------------------------------------------------------------

MaxRecords == 3

\* the least budget with which a further chunk is taken
MIN_REMAINING == 200

\* the sum of a[i] * b[i] over the indices of a, from index i on
RECURSIVE SumProd(_, _, _)
SumProd(a, b, i) ==
  IF i > Len(a) THEN 0 ELSE a[i] * b[i] + SumProd(a, b, i + 1)

\* cosineSim(a, b) is dot / (sqrt(na) * sqrt(nb) + 1e-8): the score is kept
\* as the three sums, which are exact for integer coordinates
cosineSim(a, b) ==
  [dot |-> SumProd(a, b, 1), na |-> SumProd(a, a, 1), nb |-> SumProd(b, b, 1)]

\* d1 / (sqrt(p1) + e) < d2 / (sqrt(p2) + e) for d1, d2 > 0 and the small
\* e of cosineSim: by the squares, and by d1 < d2 when the squares agree
PosLess(d1, p1, d2, p2) ==
  LET m == d1 * d1 * p2 - d2 * d2 * p1
  IN  m < 0 \/ (m = 0 /\ d1 < d2)

\* s.score < t.score as numbers
ScoreLess(s, t) ==
  CASE s.dot > 0 /\ t.dot > 0 ->
         PosLess(s.dot, s.na * s.nb, t.dot, t.na * t.nb)
    [] s.dot < 0 /\ t.dot < 0 ->
         PosLess(-t.dot, t.na * t.nb, -s.dot, s.na * s.nb)
    [] OTHER -> s.dot < t.dot

\* a variant of sortByScore: the records stay in corpus order
sortByScore_unsorted(scored) == scored

\* Array.prototype.sort with (a, b) => b.score - a.score: descending and
\* stable, a record goes before the first one of a smaller score
RECURSIVE insertByScore(_, _)
insertByScore(sorted, x) ==
  IF sorted = <<>> THEN <<x>>
  ELSE IF ScoreLess(Head(sorted).score, x.score) THEN <<x>> \o sorted
  ELSE <<Head(sorted)>> \o insertByScore(Tail(sorted), x)

RECURSIVE sortByScore(_)
sortByScore(scored) ==
  IF scored = <<>> THEN <<>>
  ELSE insertByScore(sortByScore(SubSeq(scored, 1, Len(scored) - 1)),
                     scored[Len(scored)])

\* the records with their scores for the query vector
scoreRecords(records, qVec) ==
  [i \in 1..Len(records) |->
     [file |-> records[i].file, content |-> records[i].content,
      score |-> cosineSim(qVec, records[i].embedding)]]

\* a variant of sliceLength: the content is taken whole
sliceLength_whole(length, remaining) == length

\* rec.content.slice(0, remaining).length
sliceLength(length, remaining) ==
  IF length < remaining THEN length ELSE remaining

\* a variant of budgetSpent: the loop goes on until nothing remains
budgetSpent_atZero(remaining) == remaining <= 0

\* if (remaining < 200) break
budgetSpent(remaining) == remaining < MIN_REMAINING

\* the selection loop over the sorted records: results so far, characters
\* used so far
RECURSIVE selectLoop(_, _, _, _, _)
selectLoop(scored, results, used, topK, maxCharsTotal) ==
  IF scored = <<>> THEN results
  ELSE IF Len(results) >= topK THEN results
  ELSE LET remaining == IF maxCharsTotal - used > 0
                        THEN maxCharsTotal - used ELSE 0
           rec == Head(scored)
           snippet == sliceLength(rec.content, remaining)
       IN  IF budgetSpent(remaining) THEN results
           ELSE selectLoop(Tail(scored),
                           Append(results, [file |-> rec.file,
                                            content |-> snippet,
                                            score |-> rec.score]),
                           used + snippet, topK, maxCharsTotal)

\* retrieveSimilar up to its await: !RAG_INDEX?.records?.length gives an
\* empty list at once
retrieveSimilar_start(t, topK, maxCharsTotal) ==
  IF ~t.hasRecords \/ t.index = <<>>
  THEN [t EXCEPT !.pc = "done", !.topK = topK, !.max = maxCharsTotal,
                 !.results = <<>>, !.checked = t.version,
                 !.scored = t.version]
  ELSE [t EXCEPT !.pc = "embedding", !.topK = topK, !.max = maxCharsTotal,
                 !.checked = t.version]

\* retrieveSimilar after embedText has returned qVec: RAG_INDEX is read
\* again, and RAG_INDEX.records.map throws a TypeError when RAG_INDEX has
\* no records by now
retrieveSimilar_rest(t, qVec) ==
  IF ~t.hasRecords THEN [t EXCEPT !.pc = "typeError"]
  ELSE [t EXCEPT !.pc = "done", !.scored = t.version,
                 !.results = selectLoop(sortByScore(scoreRecords(t.index, qVec)),
                                        <<>>, 0, t.topK, t.max)]

\* the embeddings of the records, and of the queries
RecordVectors == {<<1, 0>>, <<2, 0>>, <<0, 1>>}

QueryVectors == {<<1, 0>>, <<1, 1>>, <<-1, 1>>, <<0, 0>>}

\* the lengths of the records' contents
ContentLengths == {150, 400}

TopKValues == {0, 1, 2, 4}

MaxCharsValues == {0, 300, 600, 3000}

\* the corpora: up to MaxRecords records, a record's content being given
\* by its file and its length
Corpora ==
  UNION {{[i \in 1..n |-> [file |-> i, content |-> c[i], embedding |-> e[i]]] :
            c \in [1..n -> ContentLengths], e \in [1..n -> RecordVectors]} :
         n \in 0..MaxRecords}

InitRetrieve ==
  /\ env = [cap |-> Undefined, mult |-> Undefined, rounds |-> Undefined]
  /\ req = [r \in Reqs |-> AbsentReq]
  /\ payload = JNull
  /\ extracted = NoExtraction
  /\ conn = NoConn
  /\ call = NoCall
  /\ \E index \in Corpora : retr = [NoRetrieval EXCEPT !.index = index]

\* retrieveSimilar is called and runs up to the embedding call
RetrieveStart ==
  /\ retr.pc = "idle"
  /\ \E topK \in TopKValues, maxCharsTotal \in MaxCharsValues :
       retr' = retrieveSimilar_start(retr, topK, maxCharsTotal)
  /\ UNCHANGED <<env, req, payload, extracted, call, conn>>

\* the embedding call returns the query vector and the chunks are selected
EmbedReturns ==
  /\ retr.pc = "embedding"
  /\ \E qVec \in QueryVectors : retr' = retrieveSimilar_rest(retr, qVec)
  /\ UNCHANGED <<env, req, payload, extracted, call, conn>>

\* the embedding call fails and retrieveSimilar throws
EmbedFails ==
  /\ retr.pc = "embedding"
  /\ retr' = [retr EXCEPT !.pc = "failed"]
  /\ UNCHANGED <<env, req, payload, extracted, call, conn>>

NextRetrieve == RetrieveStart \/ EmbedReturns \/ EmbedFails

SpecRetrieve == InitRetrieve /\ [][NextRetrieve]_vars

\* the sum of the lengths of the contents of the chunks
RECURSIVE TotalLength(_)
TotalLength(results) ==
  IF results = <<>> THEN 0
  ELSE Head(results).content + TotalLength(Tail(results))

\* C14: retrieveSimilar returns at most topK chunks and the sum of the
\* lengths of their content never exceeds maxCharsTotal.
C14_WithinTopKAndBudget ==
  retr.pc = "done" =>
    /\ Len(retr.results) <= retr.topK
    /\ TotalLength(retr.results) <= retr.max

\* topK chunks were returned and they fill the budget, the last one cut
C14_Witness ==
  /\ retr.pc = "done"
  /\ Len(retr.results) = 2 /\ retr.topK = 2
  /\ retr.max = 600
  /\ retr.results[1].content = 400 /\ retr.results[2].content = 200

\* C15 as stated: each returned chunk's score is strictly greater than the
\* score of the chunk after it, also when records have the same embedding.
C15_StrictlyDescending ==
  retr.pc = "done" =>
    \A i \in 1..(Len(retr.results) - 1) :
      ScoreLess(retr.results[i + 1].score, retr.results[i].score)

\* C15 as amended: no returned chunk has a smaller score than the chunk
\* after it, and of two chunks of the same score the one that comes first
\* in the corpus is returned first.
C15_DescendingTiesInCorpusOrder ==
  retr.pc = "done" =>
    \A i \in 1..(Len(retr.results) - 1) :
      /\ ~ScoreLess(retr.results[i].score, retr.results[i + 1].score)
      /\ ~ScoreLess(retr.results[i + 1].score, retr.results[i].score)
           => retr.results[i].file < retr.results[i + 1].file

\* a later record of the corpus was returned before an earlier one, and
\* two records of the same embedding in their corpus order
C15_Witness ==
  /\ retr.pc = "done"
  /\ Len(retr.results) = 3
  /\ retr.results[1].file = 3
  /\ retr.results[2].file = 1 /\ retr.results[3].file = 2
  /\ retr.index[1].embedding = retr.index[2].embedding

\* ------------------------------------------------------------------------
\* The event stream: what a handler writes to its response
\*
\* A text on the wire is a sequence of characters; a fixed text without a
\* line break is written as one element. "[!] " stands for the warning
\* sign the messages begin with, "NUL" for the null character.
\* conn.flags holds "message" (the request has one), "demo" (DEMO),
\* "key" (OPENAI_API_KEY is set; HAS_KEY where the code computes it),
\* "gpt5" (IS_GPT5), "index" (the corpus is not empty).
\* ------------------------------------------------------------------------

\* escapeSSE: the null characters are taken out
escapeSSE(s) == SelectSeq(s, LAMBDA c : c # "NUL")

\* chunkForSSE(text, size): slices of size characters, the last one shorter
RECURSIVE chunkForSSE(_, _)
chunkForSSE(text, size) ==
  IF text = <<>> THEN <<>>
  ELSE IF Len(text) <= size THEN <<text>>
  ELSE <<SubSeq(text, 1, size)>>
       \o chunkForSSE(SubSeq(text, size + 1, Len(text)), size)

\* `data: ${text}\n\n`
frame(text) == <<"data: ">> \o text \o <<"\n", "\n">>

DONE_FRAME == frame(<<"[DONE]">>)

\* res.write(text): the write is recorded with what the handler meant by
\* it and with the state of the connection and of the response at the call
resWrite(c, kind, text) ==
  [c EXCEPT !.writes = Append(@, [kind |-> kind, text |-> text,
                                  closed |-> c.closed, ended |-> c.ends > 0])]

\* res.end()
resEnd(c) == [c EXCEPT !.ends = @ + 1]

\* res.write(`data: [DONE]\n\n`); res.end() and the handler returns
writeDoneAndEnd(c) ==
  [resEnd(resWrite(c, "done", DONE_FRAME)) EXCEPT !.pc = "done"]

\* one warning frame, the sentinel, the end
warnAndDone(c, warning, failure) ==
  writeDoneAndEnd([resWrite(c, "warning", frame(warning))
                     EXCEPT !.failure = failure])

\* a network call of the request leaves
startCall(c, kind) ==
  [c EXCEPT !.calls = Append(@, [kind |-> kind, closed |-> c.closed,
                                 aborted |-> FALSE])]

RECURSIVE writeParts(_, _)
writeParts(c, parts) ==
  IF parts = <<>> THEN c
  ELSE writeParts(resWrite(c, "data", frame(escapeSSE(Head(parts)))),
                  Tail(parts))

WARN_MissingMessage == <<"Missing 'message'.">>

WARN_NoKey == <<"[!] OPENAI_API_KEY missing.">>

WARN_NotGpt5 == <<"[!] Set OPENAI_MODEL=gpt-5-nano.">>

WARN_NoContent == <<"[!] No content returned by GPT-5.">>

WARN_ServerError == <<"[!] Server error while streaming.">>

\* `# Demo stream\n\nYou sent: ${message}`
DemoStreamText ==
  <<"#", " ", "D", "e", "m", "o", " ", "s", "t", "r", "e", "a", "m", "\n",
    "\n", "Y", "o", "u", " ", "s", "e", "n", "t", ":", " ">> \o USER_TEXT

\* the messages of the errors fetchJSON throws: formatOpenAIError with no
\* body, and with a message of the upstream that has two lines
ErrorMessages ==
  {<<"OpenAI error 500: (no body)">>,
   <<"OpenAI error 400: ", "Invalid input", "\n", "see the documentation">>}

\* ---- handleStream: the stream of the completed text ----------------------

\* the lines after the await of completeWithAutoContinue, which returned ret
handleStream_finish(c, ret) ==
  LET out == Trim(ret.text)
  IN  IF out = <<>> THEN warnAndDone(c, WARN_NoContent, "empty")
      ELSE LET c1 == writeParts(c, chunkForSSE(out, 200))
               c2 == IF JTruthy(ret.incompleteReason)
                     THEN resWrite(c1, "note",
                            <<"data: ", "\n", "\n",
                              "> _Auto-continued due to ">>
                            \o ElemString(ret.incompleteReason)
                            \o <<"._", "\n", "\n">>)
                     ELSE c1
           IN  writeDoneAndEnd(c2)

\* the catch of handleStream, for the exception's message
handleStream_catch(c, message) ==
  warnAndDone(c, <<"[!] ">> \o message, "exception")

\* a variant of demoStep: after the last chunk nothing is written and the
\* response stays open
demoStep_noEnd(c) ==
  IF c.pending = <<>> THEN c
  ELSE [resWrite(c, "data", frame(escapeSSE(Head(c.pending))))
          EXCEPT !.pc = "delay", !.pending = Tail(@)]

\* writes of a demo stream: the next chunk and the delay after it, or the
\* sentinel and the end when no chunk is left
demoStep(c) ==
  IF c.pending = <<>> THEN writeDoneAndEnd(c)
  ELSE [resWrite(c, "data", frame(escapeSSE(Head(c.pending))))
          EXCEPT !.pc = "delay", !.pending = Tail(@)]

\* handleStream from its first line to its first await or to its return;
\* q is the state of completeWithAutoContinue for this request
handleStream_start(c, q) ==
  IF "message" \notin c.flags
  THEN [c |-> warnAndDone(c, WARN_MissingMessage, "message"), q |-> q]
  ELSE IF "demo" \in c.flags
  THEN [c |-> demoStep([c EXCEPT !.pending = chunkForSSE(DemoStreamText, 180)]),
        q |-> q]
  ELSE IF "key" \notin c.flags
  THEN [c |-> warnAndDone(c, WARN_NoKey, "key"), q |-> q]
  ELSE IF "gpt5" \notin c.flags
  THEN [c |-> warnAndDone(c, WARN_NotGpt5, "model"), q |-> q]
  ELSE LET q1 == apiChat_start(q)
       IN  IF q1.pc = "done"
           THEN [c |-> handleStream_finish(c, q1.ret), q |-> q1]
           ELSE [c |-> [startCall(c, "completion") EXCEPT !.pc = "completing"],
                 q |-> q1]

\* a completion call of the stream resolved with data: the round is
\* finished and either the next call leaves or the text is streamed
handleStream_round(c, q, data) ==
  LET q1 == completeWithAutoContinue_round(q, data)
  IN  IF q1.pc = "done"
      THEN [c |-> handleStream_finish(c, q1.ret), q |-> q1]
      ELSE [c |-> startCall(c, "completion"), q |-> q1]

\* ---- GET /api/stream of the variant with a corpus: tokens as they come ---

MaxReads == 3

\* demoDraft(topic, tone, length), its heading and what follows it at once
DemoDraftText ==
  <<"#", " ", "A", " ", "P", "r", "a", "c", "t", "i", "c", "a", "l", " ",
    "G", "u", "i", "d", "e", " ", "t", "o", " ", "Q", "\n", "\n", "*">>

\* the characters of a text, each one a part of its own
eachChar(text) == [i \in 1..Len(text) |-> <<text[i]>>]

\* the JSON texts of the upstream lines, each written as its braces around
\* one element for what it holds: a delta with content "Hi", one with
\* content "Yo", one whose content is a line break, one with a null
\* character in its content, and one without content
Json(inner) == <<"{">> \o inner \o <<"}">>

JsonTexts == {Json(<<"Hi">>), Json(<<"Yo">>), Json(<<"nl">>), Json(<<"nul">>),
              Json(<<>>)}

\* JSON.parse(data) and json.choices?.[0]?.delta?.content || ""
tokenOf(json) ==
  CASE json = Json(<<"Hi">>) -> <<"H", "i">>
    [] json = Json(<<"Yo">>) -> <<"Y", "o">>
    [] json = Json(<<"nl">>) -> <<"\n">>
    [] json = Json(<<"nul">>) -> <<"a", "NUL", "b">>
    [] OTHER -> <<>>

STR_data == <<"d", "a", "t", "a", ":">>

STR_DONE == <<"[", "D", "O", "N", "E", "]">>

\* (leftover + chunk).split(/\r?\n/): the pieces between line ends, the
\* last piece being what follows the last line end; cur is the piece so far
RECURSIVE splitLines(_, _, _)
splitLines(s, i, cur) ==
  IF i > Len(s) THEN <<cur>>
  ELSE IF s[i] = "\n" THEN <<cur>> \o splitLines(s, i + 1, <<>>)
  ELSE IF s[i] = "\r" /\ i < Len(s) /\ s[i + 1] = "\n"
       THEN <<cur>> \o splitLines(s, i + 2, <<>>)
  ELSE splitLines(s, i + 1, Append(cur, s[i]))

\* the loop over the lines of one chunk: a line that is no data line is
\* skipped, [DONE] writes the sentinel, ends and returns, a JSON text with
\* a token writes one frame, any other text is ignored
RECURSIVE writeLines(_, _)
writeLines(c, lines) ==
  IF lines = <<>> THEN c
  ELSE LET line == Head(lines)
           data == Trim(SubSeq(line, 6, Len(line)))
       IN  IF Len(line) < 5 \/ SubSeq(line, 1, 5) # STR_data
           THEN writeLines(c, Tail(lines))
           ELSE IF data = STR_DONE THEN writeDoneAndEnd(c)
           ELSE IF data \in JsonTexts /\ tokenOf(data) # <<>>
                THEN writeLines(resWrite(c, "data",
                                  frame(escapeSSE(tokenOf(data)))),
                                Tail(lines))
           ELSE writeLines(c, Tail(lines))

\* a variant of ragStream_chunk: what follows the last line end is handled
\* as a line and nothing is kept for the next chunk
ragStream_chunk_noLeftover(c, chunk) ==
  writeLines([c EXCEPT !.reads = @ + 1], splitLines(chunk, 1, <<>>))

\* reader.read() resolved with a chunk: the body of the while loop
ragStream_chunk(c, chunk) ==
  LET lines == splitLines(c.leftover \o chunk, 1, <<>>)
      c1 == [c EXCEPT !.leftover = lines[Len(lines)], !.reads = @ + 1]
  IN  writeLines(c1, SubSeq(lines, 1, Len(lines) - 1))

\* the close handler is registered and the completion call leaves
ragStream_fetch(c) ==
  [startCall(c, "completion") EXCEPT !.listening = TRUE, !.pc = "fetching"]

\* the handler from its first line to its first await or to its return
ragStream_start(c) ==
  IF "message" \notin c.flags
  THEN warnAndDone(c, WARN_MissingMessage, "message")
  ELSE IF "demo" \in c.flags
  THEN demoStep([c EXCEPT !.pending = eachChar(DemoDraftText)])
  ELSE IF "index" \in c.flags
  THEN [startCall(c, "embed") EXCEPT !.pc = "embedding"]
  ELSE ragStream_fetch(c)

\* the response of the upstream is not ok: its text has been read
ragStream_notOk(c) ==
  warnAndDone(c,
    CASE c.upstream = 404 -> <<"[!] Model \"", "gpt-4o-mini", "\" unavailable.">>
      [] c.upstream = 429 -> <<"[!] No project credit. Add billing or enable DEMO_MODE.">>
      [] OTHER -> <<"[!] Failed to start stream.">>,
    "http")

\* fetch resolved with a status
ragStream_response(c, status) ==
  IF status # 200 THEN [c EXCEPT !.pc = "errorBody", !.upstream = status]
  ELSE [c EXCEPT !.pc = "reading", !.upstream = status]

\* the catch of the handler
ragStream_catch(c) == warnAndDone(c, WARN_ServerError, "exception")

\* the handler of the request's close event: the call is aborted, the
\* sentinel written and the response ended
onClose(c) ==
  LET n == Len(c.calls)
      c1 == IF c.pc \in {"fetching", "errorBody", "reading"}
            THEN [c EXCEPT !.aborted = TRUE, !.calls[n].aborted = TRUE]
            ELSE [c EXCEPT !.aborted = TRUE]
  IN  resEnd(resWrite(c1, "done", DONE_FRAME))

\* the chunks reader.read() resolves with
line(text) == STR_data \o <<" ">> \o text \o <<"\n">>

UpstreamChunks ==
  {line(Json(<<"Hi">>)), line(Json(<<"nl">>)), line(Json(<<"nul">>)),
   line(STR_DONE),
   <<"d", "a", "t">>,
   <<"a", ":">> \o Json(<<"Hi">>) \o <<"\r", "\n">> \o line(Json(<<>>))
     \o <<":", "\n">>}

UpstreamStatuses == {200, 404, 429, 500}

\* ---- the stream handlers as processes ------------------------------------

StreamFlags ==
  [pseudoStream |-> SUBSET {"message", "demo", "key", "gpt5"},
   ragStream |-> SUBSET {"message", "demo", "key", "index"}]

\* one stream request of either handler, for every setting of the flags
InitStream ==
  /\ env \in [cap : {Undefined}, mult : {Undefined},
              rounds : {Num(2), TextVal}]
  /\ req = [r \in Reqs |-> IF r = 1
                           THEN NewReq("idle", "stream", "standard",
                                       Undefined, Undefined)
                           ELSE AbsentReq]
  /\ payload = JNull
  /\ extracted = NoExtraction
  /\ call = NoCall
  /\ retr = NoRetrieval
  /\ \E v \in {"pseudoStream", "ragStream"} : \E f \in StreamFlags[v] :
       conn = [NoConn EXCEPT !.variant = v, !.flags = f]

\* handleStream runs up to its first await or to its return
PseudoStreamStart ==
  /\ conn.variant = "pseudoStream" /\ conn.pc = "idle"
  /\ LET r == handleStream_start(conn, req[1])
     IN  conn' = r.c /\ req' = [req EXCEPT ![1] = r.q]
  /\ UNCHANGED <<env, payload, extracted, call, retr>>

\* a completion call of handleStream resolves
PseudoStreamRound ==
  /\ conn.variant = "pseudoStream" /\ conn.pc = "completing"
  /\ \E data \in RoundPayloads :
       LET r == handleStream_round(conn, req[1], data)
       IN  conn' = r.c /\ req' = [req EXCEPT ![1] = r.q]
  /\ UNCHANGED <<env, payload, extracted, call, retr>>

\* a completion call of handleStream rejects
PseudoStreamCallFails ==
  /\ conn.variant = "pseudoStream" /\ conn.pc = "completing"
  /\ \E message \in ErrorMessages :
       conn' = handleStream_catch(conn, message)
  /\ req' = [req EXCEPT ![1] = callFailed(@)]
  /\ UNCHANGED <<env, payload, extracted, call, retr>>

\* the delay after a chunk of a demo stream is over
DelayElapses ==
  /\ conn.pc = "delay"
  /\ conn' = demoStep(conn)
  /\ UNCHANGED <<env, req, payload, extracted, call, retr>>

\* GET /api/stream runs up to its first await or to its return
RagStreamStart ==
  /\ conn.variant = "ragStream" /\ conn.pc = "idle"
  /\ conn' = ragStream_start(conn)
  /\ UNCHANGED <<env, req, payload, extracted, call, retr>>

\* the embedding call of the retrieval returns
EmbeddingReturns ==
  /\ conn.pc = "embedding"
  /\ conn' = ragStream_fetch(conn)
  /\ UNCHANGED <<env, req, payload, extracted, call, retr>>

\* the embedding call fails: retrieveSimilar throws
EmbeddingFails ==
  /\ conn.pc = "embedding"
  /\ conn' = ragStream_catch(conn)
  /\ UNCHANGED <<env, req, payload, extracted, call, retr>>

\* fetch resolves with the status of the upstream
FetchResponds ==
  /\ conn.pc = "fetching" /\ ~conn.aborted
  /\ \E status \in UpstreamStatuses : conn' = ragStream_response(conn, status)
  /\ UNCHANGED <<env, req, payload, extracted, call, retr>>

\* fetch rejects: the network failed or the call was aborted
FetchRejects ==
  /\ conn.pc = "fetching"
  /\ conn' = ragStream_catch(conn)
  /\ UNCHANGED <<env, req, payload, extracted, call, retr>>

\* resp.text() of a response that is not ok settles
ErrorBodyRead ==
  /\ conn.pc = "errorBody"
  /\ conn' = ragStream_notOk(conn)
  /\ UNCHANGED <<env, req, payload, extracted, call, retr>>

\* reader.read() resolves with a chunk
ReadChunk ==
  /\ conn.pc = "reading" /\ ~conn.aborted /\ conn.reads < MaxReads
  /\ \E chunk \in UpstreamChunks : conn' = ragStream_chunk(conn, chunk)
  /\ UNCHANGED <<env, req, payload, extracted, call, retr>>

\* reader.read() resolves with done: the upstream ended
ReadEnds ==
  /\ conn.pc = "reading" /\ ~conn.aborted
  /\ conn' = writeDoneAndEnd(conn)
  /\ UNCHANGED <<env, req, payload, extracted, call, retr>>

\* reader.read() rejects: the network failed or the call was aborted
ReadRejects ==
  /\ conn.pc = "reading"
  /\ conn' = ragStream_catch(conn)
  /\ UNCHANGED <<env, req, payload, extracted, call, retr>>

\* the caller's connection closes: the close event of the request is
\* emitted, and handled if a handler has been registered
ClientCloses ==
  /\ conn.variant \in {"pseudoStream", "ragStream"}
  /\ conn.pc # "idle" /\ ~conn.closed
  /\ conn' = IF conn.listening THEN onClose([conn EXCEPT !.closed = TRUE])
             ELSE [conn EXCEPT !.closed = TRUE]
  /\ UNCHANGED <<env, req, payload, extracted, call, retr>>

NextStream ==
  \/ PseudoStreamStart \/ PseudoStreamRound \/ PseudoStreamCallFails
  \/ DelayElapses \/ RagStreamStart \/ EmbeddingReturns \/ EmbeddingFails
  \/ FetchResponds \/ FetchRejects \/ ErrorBodyRead \/ ReadChunk
  \/ ReadEnds \/ ReadRejects \/ ClientCloses

SpecStream == InitStream /\ [][NextStream]_vars

\* ---- claims about the event stream ---------------------------------------

\* C16: once the caller's connection has closed, no further data frame and
\* no warning frame is written for the request: what is written after the
\* close is the terminal sentinel only.
C16_NoFrameAfterClose ==
  \A i \in 1..Len(conn.writes) :
    conn.writes[i].closed => conn.writes[i].kind = "done"

\* the positions at which a network call of the request is outstanding
NetworkWaits == {"completing", "embedding", "fetching", "errorBody", "reading"}

\* C17: when the caller disconnects while a network call of the request is
\* outstanding (embedding or completion, in any round), that call is
\* aborted and the request starts no further network call.
C17_DisconnectAbortsCalls ==
  /\ \A i \in 1..Len(conn.calls) : ~conn.calls[i].closed
  /\ (conn.closed /\ conn.pc \in NetworkWaits)
       => conn.calls[Len(conn.calls)].aborted

\* the writes of a kind
WritesOf(kind) == {i \in 1..Len(conn.writes) : conn.writes[i].kind = kind}

\* the handler has returned from a failure: a failure branch was taken, or
\* the upstream of the token stream ended without a token
Failed ==
  /\ conn.pc = "done"
  /\ \/ conn.failure # "none"
     \/ conn.variant = "ragStream" /\ conn.upstream = 200
          /\ WritesOf("data") = {}

\* C18: in the streaming path every failure (missing message, missing
\* credential, incompatible model, upstream HTTP error, empty output,
\* thrown exception) is delivered as exactly one warning frame followed by
\* the terminal sentinel frame and a normally ended response.
C18_FailureIsWarningThenSentinel ==
  (Failed /\ ~conn.closed) =>
    LET n == Len(conn.writes)
    IN  /\ Cardinality(WritesOf("warning")) = 1
        /\ n >= 2
        /\ conn.writes[n - 1].kind = "warning"
        /\ conn.writes[n].kind = "done"
        /\ conn.ends = 1

\* everything written, in order
RECURSIVE Wire(_)
Wire(writes) ==
  IF writes = <<>> THEN <<>> ELSE Head(writes).text \o Wire(Tail(writes))

\* the frames of a wire text: the pieces between blank lines (two line
\* breaks in a row); what follows the last blank line is no frame when
\* it is empty
RECURSIVE Frames(_, _, _)
Frames(w, i, cur) ==
  IF i > Len(w) THEN (IF cur = <<>> THEN <<>> ELSE <<cur>>)
  ELSE IF w[i] = "\n" /\ i < Len(w) /\ w[i + 1] = "\n"
       THEN <<cur>> \o Frames(w, i + 2, <<>>)
  ELSE Frames(w, i + 1, Append(cur, w[i]))

\* every line of a frame starts with data:
DataLinesOnly(fr) ==
  /\ fr # <<>>
  /\ fr[1] = "data: "
  /\ \A i \in 1..Len(fr) :
       fr[i] = "\n" => (i < Len(fr) /\ fr[i + 1] = "data: ")

\* C19: everything written to the event stream is a sequence of frames
\* `data: <payload>` each followed by a blank line: every frame consists
\* only of lines starting with data:, for all generated text, warnings and
\* the auto-continue note; no payload holds a null character and the last
\* frame is data: [DONE].
C19_WireIsDataFrames ==
  (conn.pc = "done" /\ ~conn.closed) =>
    LET frames == Frames(Wire(conn.writes), 1, <<>>)
    IN  /\ \A i \in 1..Len(frames) : DataLinesOnly(frames[i])
        /\ "NUL" \notin Chars(Wire(conn.writes))
        /\ frames # <<>>
        /\ frames[Len(frames)] = <<"data: ", "[DONE]">>

\* ------------------------------------------------------------------------
\* POST /api/chat in its three variants: "chat5" (completeWithAutoContinue),
\* "chatRag" (the variant with a corpus), "chatBasic" (the basic variant)
\* ------------------------------------------------------------------------

\* res.status(status).json({ [field]: ... }); warning tells whether the
\* text is a warning; failure is the failure the handler met
resJson(c, status, field, warning, failure) ==
  [c EXCEPT !.pc = "done", !.status = status, !.failure = failure,
            !.body = [field |-> field, warning |-> warning]]

\* the variant on completeWithAutoContinue, after its await: ret returned
chat5_finish(c, ret) ==
  IF ret.text # <<>> THEN resJson(c, 200, "reply", FALSE, "none")
  ELSE resJson(c, 200, "reply", TRUE, "empty")

\* the variant on completeWithAutoContinue, to its first await or return
chat5_start(c, q) ==
  IF "message" \notin c.flags
  THEN [c |-> resJson(c, 400, "error", FALSE, "message"), q |-> q]
  ELSE IF "demo" \in c.flags
  THEN [c |-> resJson(c, 200, "reply", FALSE, "none"), q |-> q]
  ELSE IF "key" \notin c.flags
  THEN [c |-> resJson(c, 200, "reply", TRUE, "key"), q |-> q]
  ELSE IF "gpt5" \notin c.flags
  THEN [c |-> resJson(c, 200, "reply", TRUE, "model"), q |-> q]
  ELSE LET q1 == apiChat_start(q)
       IN  IF q1.pc = "done" THEN [c |-> chat5_finish(c, q1.ret), q |-> q1]
           ELSE [c |-> [startCall(c, "completion") EXCEPT !.pc = "completing"],
                 q |-> q1]

\* a completion call of the variant resolved with data
chat5_round(c, q, data) ==
  LET q1 == completeWithAutoContinue_round(q, data)
  IN  IF q1.pc = "done" THEN [c |-> chat5_finish(c, q1.ret), q |-> q1]
      ELSE [c |-> startCall(c, "completion"), q |-> q1]

\* the catch of the variant: the message of the exception is the reply
chat5_catch(c) == resJson(c, 200, "reply", TRUE, "exception")

\* the completion call of the other two variants leaves
chat_fetch(c) == [startCall(c, "completion") EXCEPT !.pc = "fetching"]

\* the variant with a corpus, to its first await or return
chatRag_start(c) ==
  IF "message" \notin c.flags THEN resJson(c, 400, "error", FALSE, "message")
  ELSE IF "demo" \in c.flags THEN resJson(c, 200, "reply", FALSE, "none")
  ELSE IF "index" \in c.flags
  THEN [startCall(c, "embed") EXCEPT !.pc = "embedding"]
  ELSE chat_fetch(c)

\* the basic variant, to its first await or return
chatBasic_start(c) ==
  IF "message" \notin c.flags THEN resJson(c, 400, "error", FALSE, "message")
  ELSE chat_fetch(c)

\* the catch of the two variants
chat_catch(c) ==
  IF c.variant = "chatRag" THEN resJson(c, 200, "reply", TRUE, "exception")
  ELSE resJson(c, 500, "error", FALSE, "exception")

\* fetch resolved with a status: the body is read next, as text when the
\* response is not ok and as JSON when it is
chat_response(c, status) == [c EXCEPT !.pc = "body", !.upstream = status]

\* the body of a response that is not ok has been read as text; notFound
\* tells whether it says that the model was not found
chat_notOk(c, notFound) ==
  IF c.variant = "chatRag" THEN resJson(c, 200, "reply", TRUE, "http")
  ELSE IF c.upstream = 404 \/ notFound
  THEN resJson(c, 400, "error", FALSE, "http")
  ELSE resJson(c, 502, "error", FALSE, "http")

\* the body of an ok response has been parsed: content is
\* data?.choices?.[0]?.message?.content?.trim()
chat_ok(c, content) ==
  IF content # <<>> THEN resJson(c, 200, "reply", FALSE, "none")
  ELSE resJson(c, 200, "reply", TRUE, "empty")

ChatFlags ==
  [chat5 |-> SUBSET {"message", "demo", "key", "gpt5"},
   chatRag |-> SUBSET {"message", "demo", "key", "index"},
   chatBasic |-> SUBSET {"message", "key"}]

InitChat ==
  /\ env \in [cap : {Undefined}, mult : {Undefined},
              rounds : {Num(2), TextVal}]
  /\ req = [r \in Reqs |-> IF r = 1
                           THEN NewReq("idle", "reply", "standard",
                                       Undefined, Undefined)
                           ELSE AbsentReq]
  /\ payload = JNull
  /\ extracted = NoExtraction
  /\ call = NoCall
  /\ retr = NoRetrieval
  /\ \E v \in {"chat5", "chatRag", "chatBasic"} : \E f \in ChatFlags[v] :
       conn = [NoConn EXCEPT !.variant = v, !.flags = f]

Chat5Start ==
  /\ conn.variant = "chat5" /\ conn.pc = "idle"
  /\ LET r == chat5_start(conn, req[1])
     IN  conn' = r.c /\ req' = [req EXCEPT ![1] = r.q]
  /\ UNCHANGED <<env, payload, extracted, call, retr>>

Chat5Round ==
  /\ conn.variant = "chat5" /\ conn.pc = "completing"
  /\ \E data \in RoundPayloads :
       LET r == chat5_round(conn, req[1], data)
       IN  conn' = r.c /\ req' = [req EXCEPT ![1] = r.q]
  /\ UNCHANGED <<env, payload, extracted, call, retr>>

Chat5CallFails ==
  /\ conn.variant = "chat5" /\ conn.pc = "completing"
  /\ conn' = chat5_catch(conn)
  /\ req' = [req EXCEPT ![1] = callFailed(@)]
  /\ UNCHANGED <<env, payload, extracted, call, retr>>

ChatRagStart ==
  /\ conn.variant = "chatRag" /\ conn.pc = "idle"
  /\ conn' = chatRag_start(conn)
  /\ UNCHANGED <<env, req, payload, extracted, call, retr>>

ChatBasicStart ==
  /\ conn.variant = "chatBasic" /\ conn.pc = "idle"
  /\ conn' = chatBasic_start(conn)
  /\ UNCHANGED <<env, req, payload, extracted, call, retr>>

\* the embedding call of the retrieval returns, or fails
ChatEmbeddingSettles ==
  /\ conn.variant = "chatRag" /\ conn.pc = "embedding"
  /\ conn' \in {chat_fetch(conn), chat_catch(conn)}
  /\ UNCHANGED <<env, req, payload, extracted, call, retr>>

\* fetch resolves with a status, or rejects
ChatFetchSettles ==
  /\ conn.variant \in {"chatRag", "chatBasic"} /\ conn.pc = "fetching"
  /\ \/ \E status \in UpstreamStatuses : conn' = chat_response(conn, status)
     \/ conn' = chat_catch(conn)
  /\ UNCHANGED <<env, req, payload, extracted, call, retr>>

\* the body of the response is read: as text, as JSON with and without
\* content, or the reading fails (the variant with a corpus reads the text
\* with a catch of its own)
ChatBodySettles ==
  /\ conn.variant \in {"chatRag", "chatBasic"} /\ conn.pc = "body"
  /\ \/ conn.upstream # 200 /\ \E notFound \in BOOLEAN :
          conn' = chat_notOk(conn, notFound)
     \/ conn.upstream # 200 /\ conn.variant = "chatBasic"
          /\ conn' = chat_catch(conn)
     \/ conn.upstream = 200 /\ \E content \in {<<>>, STR_PartOne} :
          conn' = chat_ok(conn, content)
     \/ conn.upstream = 200 /\ conn' = chat_catch(conn)
  /\ UNCHANGED <<env, req, payload, extracted, call, retr>>

NextChat ==
  \/ Chat5Start \/ Chat5Round \/ Chat5CallFails \/ ChatRagStart
  \/ ChatBasicStart \/ ChatEmbeddingSettles \/ ChatFetchSettles
  \/ ChatBodySettles

SpecChat == InitChat /\ [][NextChat]_vars

\* C20: in every variant of the /api/chat handler a request without a
\* message gets status 400, and every other failure (missing credential,
\* incompatible model, failed retrieval, upstream non-success status,
\* thrown exception, empty output) is answered with status 200 and a reply
\* field that carries a warning.
C20_FailuresAreWarningReplies ==
  conn.pc = "done" =>
    /\ conn.failure = "message" => conn.status = 400
    /\ conn.failure \notin {"none", "message"} =>
         /\ conn.status = 200
         /\ conn.body = [field |-> "reply", warning |-> TRUE]

\* the request is one the handler would pass on to the model (it has a
\* message and DEMO is off), and no credential is configured or, where the
\* handler calls the GPT-5 family, the model is not of that family
Unconfigured ==
  /\ "message" \in conn.flags /\ "demo" \notin conn.flags
  /\ \/ "key" \notin conn.flags
     \/ conn.variant \in {"chat5", "pseudoStream"} /\ "gpt5" \notin conn.flags

\* C21: when no API credential is configured, or the configured model is
\* not of the GPT-5 family, a chat request issues no network call at all
\* and is answered at once with one warning; and a completion call that
\* fails is not issued again by the continuation loop: every call but the
\* failed one has a result, and the handler has answered.
C21_NoCallWhenUnconfigured ==
  /\ (Unconfigured /\ conn.pc # "idle") =>
       /\ conn.calls = <<>>
       /\ conn.pc = "done"
       /\ conn.status = 200
       /\ conn.body = [field |-> "reply", warning |-> TRUE]
  /\ req[1].pc = "failed" =>
       /\ conn.pc = "done"
       /\ req[1].inflight = <<>>
       /\ Len(req[1].calls) = Len(req[1].results) + 1
       /\ Len(conn.calls) = Len(req[1].calls)

\* ------------------------------------------------------------------------
\* Retrieval while the corpus is reloaded
\* ------------------------------------------------------------------------

MaxReloads == 2

\* POST /admin/reload-index: RAG_INDEX = JSON.parse(readFileSync(...)); file
\* is what the index file holds. When the file cannot be read or parsed the
\* assignment does not happen and the request is answered with status 500
reloadIndex(t, file) ==
  IF ~file.parses THEN [t EXCEPT !.reloads = @ + 1]
  ELSE [t EXCEPT !.index = file.records, !.hasRecords = file.hasRecords,
                 !.version = t.reloads + 1, !.reloads = @ + 1]

\* the corpora of at most n records
CorporaUpTo(n) == {c \in Corpora : Len(c) <= n}

\* what the index file can hold at a reload: a corpus, a JSON value without
\* a records field, a text that is no JSON
IndexFiles ==
  {[parses |-> TRUE, hasRecords |-> TRUE, records |-> c] : c \in CorporaUpTo(1)}
  \cup {[parses |-> TRUE, hasRecords |-> FALSE, records |-> <<>>],
        [parses |-> FALSE, hasRecords |-> FALSE, records |-> <<>>]}

InitReload ==
  /\ env = [cap |-> Undefined, mult |-> Undefined, rounds |-> Undefined]
  /\ req = [r \in Reqs |-> AbsentReq]
  /\ payload = JNull
  /\ extracted = NoExtraction
  /\ conn = NoConn
  /\ call = NoCall
  /\ \E index \in CorporaUpTo(2) : retr = [NoRetrieval EXCEPT !.index = index]

\* a handler calls retrieveSimilar(message, { topK: 4, maxCharsTotal: 3000 })
RetrieveForRequest ==
  /\ retr.pc = "idle"
  /\ retr' = retrieveSimilar_start(retr, 4, 3000)
  /\ UNCHANGED <<env, req, payload, extracted, call, conn>>

\* a request to reload the index is handled, at any time
ReloadIndex ==
  /\ retr.reloads < MaxReloads
  /\ \E file \in IndexFiles : retr' = reloadIndex(retr, file)
  /\ UNCHANGED <<env, req, payload, extracted, call, conn>>

NextReload == RetrieveForRequest \/ EmbedReturns \/ EmbedFails \/ ReloadIndex

SpecReload == InitReload /\ [][NextReload]_vars

\* C22: a retrieval in flight is unaffected by a concurrent reload of the
\* index: the corpus retrieveSimilar scores after the embedding call has
\* returned is the version whose non-emptiness it checked before the call,
\* and the retrieval never fails because the corpus was replaced meanwhile.
C22_RetrievalKeepsItsCorpus ==
  /\ retr.pc = "done" => retr.scored = retr.checked
  /\ retr.pc # "typeError"

\* ------------------------------------------------------------------------
\* The prompt functions on their own
\* ------------------------------------------------------------------------

\* the tones and lengths of a request: named ones, unknown ones, names of
\* properties every object inherits, and the values that are no strings
ToneArgs ==
  {TextArg(t) : t \in {"balanced", "formal", "storytelling", "zzz", "",
                       "constructor", "__proto__", "toString"}}
  \cup {UndefArg, NullArg, ObjectArg, NoPrimitiveArg}

LengthArgs ==
  {TextArg(l) : l \in {"concise", "standard", "ultra", "huge", "valueOf"}}
  \cup {UndefArg, NullArg, NoPrimitiveArg}

PromptVariants == {"gpt5", "rag", "plain"}

UserPrompts == {<<"q">>, <<" ", "q", "\n">>}

ChunkA == [title |-> "Doc A", content |-> <<" ", "a", "\n">>]

ChunkB == [title |-> "Doc B", content |-> <<"b">>]

RetrievedLists == {<<>>, <<ChunkA>>, <<ChunkA, ChunkB>>}

StyleGuides == {<<>>, <<"Be calm.">>}

InitPrompt ==
  /\ env = [cap |-> Undefined, mult |-> Undefined, rounds |-> Undefined]
  /\ req = [r \in Reqs |-> AbsentReq]
  /\ payload = JNull
  /\ extracted = NoExtraction
  /\ conn = NoConn
  /\ retr = NoRetrieval
  /\ \E v \in PromptVariants, tone \in ToneArgs, length \in LengthArgs :
       \/ call = [fn |-> "style",
                  arg |-> [variant |-> v, tone |-> tone, length |-> length],
                  once |-> <<>>, out |-> <<>>, steps |-> 0]
       \/ \E u \in UserPrompts, r \in RetrievedLists, g \in StyleGuides :
            call = [fn |-> "build",
                    arg |-> [variant |-> v, tone |-> tone, length |-> length,
                             userPrompt |-> u, retrieved |-> r,
                             styleGuide |-> g],
                    once |-> <<>>, out |-> <<>>, steps |-> 0]

\* styleInstruction is called with the tone and the length
StyleInstruction ==
  /\ call.fn = "style" /\ call.steps = 0
  /\ LET a == call.arg
     IN  call' = [call EXCEPT
           !.steps = 1,
           !.out = IF styleThrows(a.tone, a.length)
                   THEN [threw |-> TRUE, value |-> <<>>]
                   ELSE [threw |-> FALSE,
                         value |-> styleInstruction(a.variant, a.tone, a.length)]]
  /\ UNCHANGED <<env, req, payload, extracted, retr, conn>>

\* buildMessages of the variant is called
BuildMessages ==
  /\ call.fn = "build" /\ call.steps = 0
  /\ LET a == call.arg
     IN  call' = [call EXCEPT
           !.steps = 1,
           !.out = IF styleThrows(a.tone, a.length)
                   THEN [threw |-> TRUE, value |-> <<>>]
                   ELSE [threw |-> FALSE,
                         value |->
                           CASE a.variant = "gpt5" ->
                                  buildMessages(a.userPrompt, a.tone, a.length)
                             [] a.variant = "rag" ->
                                  buildMessages_rag(a.userPrompt, a.tone,
                                    a.length, a.retrieved, a.styleGuide)
                             [] OTHER ->
                                  buildMessages_plain(a.userPrompt, a.tone,
                                                      a.length)]]
  /\ UNCHANGED <<env, req, payload, extracted, retr, conn>>

NextPrompt == StyleInstruction \/ BuildMessages

SpecPrompt == InitPrompt /\ [][NextPrompt]_vars

NamedTone(v) == v.t = "str" /\ v.s \in DOMAIN toneMap

NamedLength(v) == v.t = "str" /\ v.s \in DOMAIN lengthMap("rag")

\* C23: styleInstruction never fails and, for every tone value that is not
\* one of the 7 named tones, returns the phrase of the tone "balanced", and
\* for every length value that is not one of the 4 named lengths, the
\* phrase of the length "standard"; the values are whatever the request
\* carries.
C23_StyleFallsBack ==
  (call.fn = "style" /\ call.steps = 1) =>
    /\ ~call.out.threw
    /\ ~NamedTone(call.arg.tone) => call.out.value[1] = toneMap.balanced
    /\ ~NamedLength(call.arg.length) =>
         call.out.value[3] = lengthMap(call.arg.variant).standard

\* the retrieved list buildMessages was given: only the variant with a
\* corpus takes one
RetrievedOf(a) == IF a.variant = "rag" THEN a.retrieved ELSE <<>>

\* C24: buildMessages returns messages in the fixed role order system,
\* system, user with the user text verbatim in the last message; the first
\* system message holds a reference-excerpts block if and only if the
\* retrieved list is not empty, and the style message holds the phrase of
\* the tone verbatim (tone "formal", length "concise", no chunk retrieved:
\* no excerpts block, the formal phrase present).
C24_MessagesInFixedOrder ==
  (call.fn = "build" /\ call.steps = 1 /\ ~call.out.threw) =>
    LET msgs == call.out.value
        a == call.arg
    IN  /\ [i \in 1..Len(msgs) |-> msgs[i].role] = <<"system", "system", "user">>
        /\ msgs[Len(msgs)].content = a.userPrompt
        /\ (REFS_HEADING \in Chars(msgs[1].content)) <=> (RetrievedOf(a) # <<>>)
        /\ NamedTone(a.tone) =>
             /\ toneMap[a.tone.s] \in Chars(msgs[2].content)
             /\ msgs[2].content[1] = "Stylistic guidance: "

\* ---- the budget of a retrieval ---------------------------------------------

\* the budget that remained when the chunk at position i was selected
RemainingAt(i) == retr.max - TotalLength(SubSeq(retr.results, 1, i - 1))

\* the length of the content of the record a chunk was taken from
RecordLength(chunk) == retr.index[chunk.file].content

\* C25: retrieveSimilar stops selecting as soon as fewer than 200 budget
\* characters remain; the content of each selected chunk is the prefix of
\* its record's content whose length is the smaller of the content's length
\* and the remaining budget; only the last selected chunk can be cut, it
\* then fills the remaining budget exactly, and no record of the corpus is
\* selected twice.
C25_SelectionStopsAndTruncates ==
  retr.pc = "done" =>
    LET n == Len(retr.results)
    IN  /\ \A i \in 1..n :
             /\ RemainingAt(i) >= 200
             /\ retr.results[i].content =
                  IF RecordLength(retr.results[i]) < RemainingAt(i)
                  THEN RecordLength(retr.results[i]) ELSE RemainingAt(i)
        /\ \A i \in 1..(n - 1) :
             retr.results[i].content = RecordLength(retr.results[i])
        /\ (n > 0 /\ retr.results[n].content < RecordLength(retr.results[n]))
             => TotalLength(retr.results) = retr.max
        /\ \A i, j \in 1..n : i # j => retr.results[i].file # retr.results[j].file

\* the selection stopped with 50 characters of the budget left, before topK
\* chunks were selected and with a record of the corpus left over
C25_Witness ==
  /\ retr.pc = "done"
  /\ retr.topK = 4 /\ retr.max = 600 /\ Len(retr.index) = 3
  /\ Len(retr.results) = 2
  /\ retr.results[1].content = 150 /\ retr.results[2].content = 400

\* ------------------------------------------------------------------------
\* The extractor on nodes with several texts
\* ------------------------------------------------------------------------

\* the texts of these payloads: "P" comes first in the payload, "Q" second
FirstText == <<"P">>

SecondText == <<"Q">>

\* the tags that make the extractor collect the string fields of a node
Taggings ==
  {<<KV("role", JStr(STR_assistant))>>, <<KV("type", JStr(STR_output_text))>>}

\* the fields whose string value the extractor collects
TextFields == {"output_text", "text", "content", "value", "message", "delta"}

\* a node reached through the output array of the payload
UnderOutput(node) == JObj(<<KV("output", JArr(<<node>>))>>)

\* nodes with two text fields, in either order of every two fields
TwoTextNodes ==
  {JObj(tags \o <<KV(kk[1], JStr(FirstText)), KV(kk[2], JStr(SecondText))>>) :
     tags \in Taggings,
     kk \in {pair \in TextFields \X TextFields : pair[1] # pair[2]}}

\* nodes with two container fields, in either order of every two fields
TwoContainerNodes ==
  {JObj(<<KV("role", JStr(STR_assistant)),
          KV(kk[1], JArr(<<JStr(FirstText)>>)),
          KV(kk[2], JArr(<<JStr(SecondText)>>))>>) :
     kk \in {pair \in KnownChainKeys \X KnownChainKeys : pair[1] # pair[2]}}

\* payloads with one or two texts: the nodes above and the assistant nodes
\* under the output array, and arrays of texts and of nodes
OrderPayloads ==
  {UnderOutput(n) : n \in TwoTextNodes \cup TwoContainerNodes \cup AssistantNodes}
  \cup {JArr(<<JStr(FirstText), JStr(SecondText)>>),
        JObj(<<KV("output",
                  JArr(<<TaggedNode(<<>>, STR_output_text, "text", JStr(FirstText)),
                         TaggedNode(<<>>, STR_output_text, "text", JStr(SecondText))>>))>>)}

InitOrder ==
  /\ env = [cap |-> Undefined, mult |-> Undefined, rounds |-> Undefined]
  /\ req = [r \in Reqs |-> AbsentReq]
  /\ payload \in OrderPayloads
  /\ extracted = NoExtraction
  /\ conn = NoConn
  /\ call = NoCall
  /\ retr = NoRetrieval

SpecOrder == InitOrder /\ [][NextExtract]_vars

\* the characters of all the strings of a payload in document order: the
\* elements of an array by index, the fields of an object as they occur
RECURSIVE DocChars(_)
RECURSIVE DocCharsOf(_, _, _)
DocCharsOf(node, isArray, i) ==
  LET items == IF isArray THEN node.a ELSE node.f
  IN  IF i > Len(items) THEN <<>>
      ELSE DocChars(IF isArray THEN items[i] ELSE items[i].v)
           \o DocCharsOf(node, isArray, i + 1)

DocChars(node) ==
  CASE node.t = "str" -> node.s
    [] node.t = "arr" -> DocCharsOf(node, TRUE, 1)
    [] node.t = "obj" -> DocCharsOf(node, FALSE, 1)
    [] OTHER -> <<>>

\* the characters the texts of these payloads are made of
TextLetters == {"A", "P", "Q"}

\* the place of the first c in s
FirstPos(s, c) == CHOOSE i \in 1..Len(s) : s[i] = c /\ \A j \in 1..(i - 1) : s[j] # c

\* how often c occurs in s
CountOf(s, c) == Cardinality({i \in 1..Len(s) : s[i] = c})

\* C26: the fragments extractResponseText collects appear in its output in
\* document order: array elements in index order and the fields of an
\* object in the order in which they occur in the payload, so that two
\* text-bearing fields of one node are emitted in their payload order.
C26_DocumentOrder ==
  (extracted.done /\ ~extracted.threw) =>
    \A x, y \in TextLetters \cap Chars(extracted.text) :
      FirstPos(extracted.text, x) < FirstPos(extracted.text, y)
        => FirstPos(DocChars(payload), x) < FirstPos(DocChars(payload), y)

\* C27: every text-bearing string of the payload contributes to the output
\* of extractResponseText at most once: an assistant node whose content or
\* message field is a plain string yields that text a single time.
C27_EachTextAtMostOnce ==
  (extracted.done /\ ~extracted.threw) =>
    \A x \in TextLetters :
      CountOf(extracted.text, x) <= CountOf(DocChars(payload), x)

\* ------------------------------------------------------------------------
\* The token stream under every split of the upstream body into chunks
\* ------------------------------------------------------------------------

MaxLines == 3

\* the same line ended by a carriage return and a line feed
lineCRLF(text) == STR_data \o <<" ">> \o text \o <<"\r", "\n">>

\* the lines of an upstream body: deltas with content, ended either way, a
\* delta without content, a keep-alive comment and the end marker
UpstreamLines ==
  {line(Json(<<"Hi">>)), lineCRLF(Json(<<"Yo">>)), line(Json(<<>>)),
   <<":", "\r", "\n">>, line(STR_DONE)}

\* the upstream bodies: up to MaxLines lines, each one terminated
UpstreamBodies ==
  {Concat(ls) : ls \in UNION {[1..n -> UpstreamLines] : n \in 1..MaxLines}}

\* a stream request with a message and a key, no demo mode, no corpus
InitSplit ==
  /\ env = [cap |-> Undefined, mult |-> Undefined, rounds |-> Undefined]
  /\ req = [r \in Reqs |-> AbsentReq]
  /\ payload = JNull
  /\ extracted = NoExtraction
  /\ call = NoCall
  /\ retr = NoRetrieval
  /\ \E b \in UpstreamBodies :
       conn = [NoConn EXCEPT !.variant = "ragStream",
                             !.flags = {"message", "key"},
                             !.upstreamBody = b]

\* reader.read() resolves with the next bytes of the body, any number of
\* them: the network decides where a chunk ends. The body is finite, so
\* the reads need no bound and are not counted
ReadNext ==
  /\ conn.pc = "reading" /\ conn.readTo < Len(conn.upstreamBody)
  /\ \E n \in 1..(Len(conn.upstreamBody) - conn.readTo) :
       conn' = [ragStream_chunk(
                  [conn EXCEPT !.readTo = @ + n],
                  SubSeq(conn.upstreamBody, conn.readTo + 1, conn.readTo + n))
                EXCEPT !.reads = conn.reads]
  /\ UNCHANGED <<env, req, payload, extracted, call, retr>>

\* reader.read() resolves with done once the whole body has been read
ReadDone ==
  /\ conn.pc = "reading" /\ conn.readTo = Len(conn.upstreamBody)
  /\ conn' = writeDoneAndEnd(conn)
  /\ UNCHANGED <<env, req, payload, extracted, call, retr>>

NextSplit ==
  RagStreamStart \/ FetchResponds \/ ErrorBodyRead \/ ReadNext \/ ReadDone

SpecSplit == InitSplit /\ [][NextSplit]_vars

\* the lines of a body of terminated lines, without their line ends
RECURSIVE BodyLines(_, _)
BodyLines(body, cur) ==
  IF body = <<>> THEN <<>>
  ELSE IF Head(body) = "\n"
  THEN <<IF cur # <<>> /\ cur[Len(cur)] = "\r"
         THEN SubSeq(cur, 1, Len(cur) - 1) ELSE cur>>
       \o BodyLines(Tail(body), <<>>)
  ELSE BodyLines(Tail(body), Append(cur, Head(body)))

\* the frames the lines ask for: one for each delta with content, up to
\* the end marker
RECURSIVE ExpectedFrames(_)
ExpectedFrames(lines) ==
  IF lines = <<>> THEN <<>>
  ELSE LET l == Head(lines)
       IN  IF l = STR_data \o <<" ">> \o STR_DONE THEN <<>>
           ELSE IF l = STR_data \o <<" ">> \o Json(<<"Hi">>)
           THEN <<frame(<<"H", "i">>)>> \o ExpectedFrames(Tail(lines))
           ELSE IF l = STR_data \o <<" ">> \o Json(<<"Yo">>)
           THEN <<frame(<<"Y", "o">>)>> \o ExpectedFrames(Tail(lines))
           ELSE ExpectedFrames(Tail(lines))

\* the token frames written so far
TokenFrames ==
  LET w == SelectSeq(conn.writes, LAMBDA x : x.kind = "data")
  IN  [i \in 1..Len(w) |-> w[i].text]

\* C28: in the handler that streams the tokens, the sequence of token
\* frames forwarded does not depend on how the upstream bytes are split into
\* chunks: for every split of the same terminated lines (inside a line and
\* between CR and LF too), each data line with content gives exactly one
\* frame, in upstream order.
C28_FramesIndependentOfSplit ==
  LET exp == ExpectedFrames(BodyLines(conn.upstreamBody, <<>>))
      got == TokenFrames
  IN  /\ Len(got) <= Len(exp)
      /\ got = SubSeq(exp, 1, Len(got))
      /\ (conn.pc = "done" /\ conn.upstream = 200) => got = exp

\* a chunk ended between the CR and the LF of the second line, after the
\* frame of the first line had been written
C28_Witness ==
  /\ conn.pc = "reading"
  /\ Len(TokenFrames) = 1
  /\ conn.leftover = STR_data \o <<" ">> \o Json(<<"Yo">>) \o <<"\r">>

\* ---- the terminal sentinel ------------------------------------------------

\* C29: for every stream request and every interleaving of the upstream
\* events with the caller's close event, the handler writes the terminal
\* sentinel frame exactly once, and attempts no write to the response after
\* the sentinel has been written or the response has been ended.
C29_SentinelExactlyOnce ==
  /\ Cardinality(WritesOf("done")) <= 1
  /\ conn.pc = "done" => Cardinality(WritesOf("done")) = 1
  /\ \A i \in 1..Len(conn.writes) :
       /\ ~conn.writes[i].ended
       /\ conn.writes[i].kind = "done" => i = Len(conn.writes)

\* ------------------------------------------------------------------------
\* The stream handlers under fair scheduling: the handler of a request that
\* arrived is run, a timer that was set fires, and every outstanding network
\* call returns or fails (the body of an upstream response is finite: at
\* most MaxReads chunks are read). Nothing is assumed of the caller.
\* ------------------------------------------------------------------------

FairStream ==
  /\ WF_vars(PseudoStreamStart)
  /\ WF_vars(RagStreamStart)
  /\ WF_vars(DelayElapses)
  /\ WF_vars(PseudoStreamRound \/ PseudoStreamCallFails)
  /\ WF_vars(EmbeddingReturns \/ EmbeddingFails)
  /\ WF_vars(FetchResponds \/ FetchRejects)
  /\ WF_vars(ErrorBodyRead)
  /\ WF_vars(ReadChunk \/ ReadEnds \/ ReadRejects)

SpecStreamFair == InitStream /\ [][NextStream]_vars /\ FairStream

\* the sentinel has been written and the response ended
StreamEnded ==
  /\ conn.pc = "done"
  /\ WritesOf("done") # {}
  /\ conn.ends >= 1

\* C30: every accepted stream request eventually writes the terminal
\* sentinel frame and ends the response, provided each outstanding network
\* call eventually returns or fails: no path through the handlers (demo
\* mode, validation failure, error, exhausted rounds, upstream end without
\* the end marker) leaves the response open forever.
C30_EveryStreamEnds == (conn.variant # "none") ~> StreamEnded

\* the upstream ended in the middle of a line and without the end marker,
\* after a token had been forwarded, and the response was ended
C30_Witness ==
  /\ StreamEnded /\ ~conn.closed
  /\ conn.variant = "ragStream" /\ conn.upstream = 200
  /\ conn.failure = "none"
  /\ WritesOf("data") # {}
  /\ conn.leftover # <<>>

====
